---- MODULE Spec2Model ----
(***************************************************************************)
(* A model of the serpent CLI framework: the Option / OptionSet source     *)
(* resolution engine (ParseEnv, SetDefaults, YAML application) and the     *)
(* recursive command dispatch of Invocation.Run.                           *)
(***************************************************************************)
EXTENDS Integers, Sequences, FiniteSets, TLC

VARIABLES
    opts,          \* Command name -> OptionSet (Command.Options)
    vals,          \* Value instance -> its current contents (pflag.Value)
    setLog,        \* history: every Value.Set call, in order
    err,           \* the error the last operation returned (<<>> is nil)
    environ,       \* Invocation.Environ, a list of EnvVar
    calls,         \* stand-alone OptionSet specs: operations called so far
    prevOpts,      \* stand-alone OptionSet specs: the OptionSet before the last call
    prevVals,      \* stand-alone OptionSet specs: the Values before the last call
    pc,            \* position inside Invocation.Run / Invocation.run
    cmd,           \* inv.Command
    allArgs,       \* runState.allArgs
    depth,         \* runState.commandDepth
    flagParseErr,  \* runState.flagParseErr
    parsedFlags,   \* inv.parsedFlags: the accumulated pflag.FlagSet
    parsedArgs,    \* the positional residue of the last Parse
    invArgs,       \* inv.Args as the handler sees it
    files,         \* the file system: path -> YAML document or "missing"
    completion,    \* inv.IsCompletionMode()
    outcome,       \* how Run ended
    handlerRan,    \* which handlers (and middleware) were invoked
    tree,          \* Command name -> the Command's fields other than Options
    ctx,           \* inv.ctx and the context run derives from it for the handlers
    stdout,        \* the lines run itself wrote to inv.Stdout
    ms,            \* the middlewares handed to Chain, in the order given
    called,        \* the functions of the chained handler invoked so far
    testMode,      \* flag.Lookup("test.v") != nil: the process runs under go test
    choices        \* Value instance -> Enum.Choices, the slice the Enum holds

vars == <<opts, vals, setLog, err, environ, calls, prevOpts, prevVals, pc, cmd,
          allArgs, depth, flagParseErr, parsedFlags, parsedArgs, invArgs, files,
          completion, outcome, handlerRan, tree, ctx, stdout, ms, called, testMode,
          choices>>

(***************************************************************************)
(* Bounds of the model.                                                    *)
(***************************************************************************)
MaxOpts == 2      \* options of a stand-alone OptionSet
MaxEnv == 2       \* entries of a stand-alone environment snapshot
MaxArgs == 3      \* tokens of an argument vector

(***************************************************************************)
(* ValueSource and its priority order.                                     *)
(***************************************************************************)
ValueSourceNone == ""
ValueSourceFlag == "flag"
ValueSourceEnv == "env"
ValueSourceYAML == "yaml"
ValueSourceDefault == "default"

valueSourcePriority ==
    <<ValueSourceFlag, ValueSourceEnv, ValueSourceYAML, ValueSourceDefault, ValueSourceNone>>

ValueSources == {valueSourcePriority[i] : i \in 1..Len(valueSourcePriority)}

\* slices.Index(valueSourcePriority, s)
SourceIndex(s) == CHOOSE i \in 1..Len(valueSourcePriority) : valueSourcePriority[i] = s

(***************************************************************************)
(* Values.  A Value is held by reference: options that carry the same      *)
(* Value name share one instance.  NilValue is an Option without a Value.  *)
(***************************************************************************)
NilValue == "nil"
ValueKind ==
    [vs |-> "string", vt |-> "string", vi |-> "int", vb |-> "bool", vc |-> "yamlpath",
     ve |-> "enum"]
ValueIds == DOMAIN ValueKind

\* The literals the model feeds to Value.Set.
Lits == {"", "1", "x"}

\* Whether Value.Set(raw) succeeds: String and YAMLConfigPath take any text,
\* Int takes a number, Bool takes a boolean.
SetOK(v, raw) ==
    CASE ValueKind[v] = "string" -> TRUE
      [] ValueKind[v] = "yamlpath" -> TRUE
      [] ValueKind[v] = "int" -> raw \in {"0", "1"}
      [] ValueKind[v] = "bool" -> raw \in {"true", "false"}
      [] ValueKind[v] = "enum" -> raw \in {"binary", "text"}

\* Value.String() of Value v holding text: an Int64 that was never set
\* holds 0, every other Value renders the text it was set from.
String(v, text) == IF ValueKind[v] = "int" /\ text = "" THEN "0" ELSE text

\* NoOptDefValuer: a Bool flag given without a value is set to "true".
NoOptDefValue(v) == IF v # NilValue /\ ValueKind[v] = "bool" THEN "true" ELSE ""

\* The state an OptionSet operation threads through its loops.
\*   os: the OptionSet, vs: the Values, log: the Value.Set calls, errs: the
\*   entries of the multierror.
SetValue(st, i, raw, by) ==
    LET v == st.os[i].Value IN
    [st EXCEPT
        !.vs = IF SetOK(v, raw) THEN [st.vs EXCEPT ![v] = raw] ELSE st.vs,
        !.log = Append(st.log, [opt |-> st.os[i].Name, val |-> v, raw |-> raw, by |-> by]),
        !.errs = IF SetOK(v, raw) THEN st.errs
                 ELSE Append(st.errs, [kind |-> "parse", name |-> st.os[i].Name])]

(***************************************************************************)
(* OptionSet.ParseEnv                                                      *)
(***************************************************************************)
\* envs := make(map[string]string); for _, v := range vs { envs[v.Name] = v.Value }
EnvHas(vs, name) == \E i \in 1..Len(vs) : vs[i].Name = name
EnvGet(vs, name) ==
    LET last == CHOOSE i \in 1..Len(vs) :
                    /\ vs[i].Name = name
                    /\ \A j \in 1..Len(vs) : vs[j].Name = name => j <= i
    IN vs[last].Value

\* envVal, ok := envs[opt.Env]; if !ok { envVal, ok = envs["HOMEBREW_"+opt.Env] }
EnvLookupFallbackFirst(vs, env) ==
    IF EnvHas(vs, "HOMEBREW_" \o env) THEN [ok |-> TRUE, val |-> EnvGet(vs, "HOMEBREW_" \o env)]
    ELSE IF EnvHas(vs, env) THEN [ok |-> TRUE, val |-> EnvGet(vs, env)]
    ELSE [ok |-> FALSE, val |-> ""]
EnvLookup(vs, env) ==
    IF EnvHas(vs, env) THEN [ok |-> TRUE, val |-> EnvGet(vs, env)]
    ELSE IF EnvHas(vs, "HOMEBREW_" \o env) THEN [ok |-> TRUE, val |-> EnvGet(vs, "HOMEBREW_" \o env)]
    ELSE [ok |-> FALSE, val |-> ""]

\* The body of the loop of ParseEnv for option i.
ParseEnvOneStopOnError(st, i, vs) ==
    LET opt == st.os[i]
        found == EnvLookup(vs, opt.Env)
    IN IF opt.Env = "" \/ st.errs # <<>> THEN st
       ELSE IF ~found.ok \/ found.val = "" THEN st
       ELSE SetValue([st EXCEPT !.os[i].ValueSource = ValueSourceEnv], i, found.val, "env")
ParseEnvOne(st, i, vs) ==
    LET opt == st.os[i]
        found == EnvLookup(vs, opt.Env)
    IN IF opt.Env = "" THEN st
       ELSE IF ~found.ok \/ found.val = "" THEN st
       ELSE SetValue([st EXCEPT !.os[i].ValueSource = ValueSourceEnv], i, found.val, "env")

RECURSIVE ParseEnvFrom(_, _, _)
ParseEnvFrom(st, i, vs) ==
    IF i > Len(st.os) THEN st ELSE ParseEnvFrom(ParseEnvOne(st, i, vs), i + 1, vs)

\* ParseEnv on OptionSet os with Values v: the new OptionSet and Values, the
\* Value.Set calls made and the entries of the returned error.
ParseEnv(os, v, vs) ==
    ParseEnvFrom([os |-> os, vs |-> v, log |-> <<>>, errs |-> <<>>], 1, vs)

(***************************************************************************)
(* OptionSet.SetDefaults                                                   *)
(***************************************************************************)
\* sortOptionByValueSourcePriorityOrDefault
sortOptionIgnoringSource(a, b) ==
    IF a.Default # b.Default /\ a.Default = "" THEN 1
    ELSE IF a.Default # b.Default /\ b.Default = "" THEN -1
    ELSE 0
sortOptionByValueSourcePriorityOrDefault(a, b) ==
    IF a.ValueSource # b.ValueSource
    THEN SourceIndex(a.ValueSource) - SourceIndex(b.ValueSource)
    ELSE IF a.Default # b.Default /\ a.Default = "" THEN 1
    ELSE IF a.Default # b.Default /\ b.Default = "" THEN -1
    ELSE 0

\* slices.SortFunc on a short slice is an insertion sort: element j sinks
\* while it compares less than its left neighbour.
RECURSIVE Sink(_, _, _)
Sink(os, g, j) ==
    IF j > 1 /\ sortOptionByValueSourcePriorityOrDefault(os[g[j]], os[g[j - 1]]) < 0
    THEN Sink(os, [g EXCEPT ![j] = g[j - 1], ![j - 1] = g[j]], j - 1)
    ELSE g

RECURSIVE SortFrom(_, _, _)
SortFrom(os, g, i) == IF i > Len(g) THEN g ELSE SortFrom(os, Sink(os, g, i), i + 1)

\* groupByValue[v]: the options that hold Value v, in OptionSet order, as
\* indices into the OptionSet (the code keeps pointers into it).
RECURSIVE GroupFrom(_, _, _)
GroupFrom(os, v, i) ==
    IF i > Len(os) THEN <<>>
    ELSE IF os[i].Value = v THEN <<i>> \o GroupFrom(os, v, i + 1)
    ELSE GroupFrom(os, v, i + 1)
GroupOf(os, v) == GroupFrom(os, v, 1)

\* The loop that picks optWithDefault: acc.owd is its index (0 is nil).
RECURSIVE PickDefault(_, _, _, _)
RECURSIVE PickDefaultNoConflict(_, _, _, _)
PickDefaultNoConflict(os, g, k, acc) ==
    IF k > Len(g) THEN acc
    ELSE IF os[g[k]].Default = "" THEN PickDefaultNoConflict(os, g, k + 1, acc)
    ELSE PickDefaultNoConflict(os, g, k + 1, [acc EXCEPT !.owd = g[k]])
PickDefault(os, g, k, acc) ==
    IF k > Len(g) THEN acc
    ELSE LET opt == os[g[k]] IN
         IF opt.Default = "" THEN PickDefault(os, g, k + 1, acc)
         ELSE IF acc.owd # 0 /\ os[acc.owd].Default # opt.Default
         THEN PickDefault(os, g, k + 1,
                  [acc EXCEPT !.errs = Append(acc.errs,
                       [kind |-> "multidefault", name |-> opt.Name])])
         ELSE PickDefault(os, g, k + 1, [acc EXCEPT !.owd = g[k]])

\* Marks every option of group g with source src.
MarkGroup(os, g, src) ==
    [i \in 1..Len(os) |->
        IF \E k \in 1..Len(g) : g[k] = i THEN [os[i] EXCEPT !.ValueSource = src] ELSE os[i]]

\* The body of the loop over groupByValue, for the group of Value v.
SetDefaultsGroupAlways(st, v) ==
    LET g == SortFrom(st.os, GroupOf(st.os, v), 2)
        picked == PickDefault(st.os, g, 1, [owd |-> 0, errs |-> st.errs])
        st1 == [st EXCEPT !.errs = picked.errs]
    IN IF g = <<>> THEN st
       ELSE IF picked.owd = 0 THEN st1
       ELSE LET st2 == SetValue(st1, picked.owd, st.os[picked.owd].Default, "default")
            IN [st2 EXCEPT !.os = MarkGroup(st2.os, g, ValueSourceDefault)]
SetDefaultsGroup(st, v) ==
    LET g == SortFrom(st.os, GroupOf(st.os, v), 2)
        picked == PickDefault(st.os, g, 1, [owd |-> 0, errs |-> st.errs])
        st1 == [st EXCEPT !.errs = picked.errs]
    IN IF g = <<>> THEN st
       ELSE IF st.os[g[1]].ValueSource # ValueSourceNone
       THEN [st EXCEPT !.os = MarkGroup(st.os, g, st.os[g[1]].ValueSource)]
       ELSE IF picked.owd = 0 THEN st1
       ELSE LET st2 == SetValue(st1, picked.owd, st.os[picked.owd].Default, "default")
            IN [st2 EXCEPT !.os = MarkGroup(st2.os, g, ValueSourceDefault)]

\* The first loop: an option without a Value is reported and left out.
RECURSIVE NoValueErrs(_, _)
NoValueErrs(os, i) ==
    IF i > Len(os) THEN <<>>
    ELSE IF os[i].Value = NilValue
    THEN <<[kind |-> "novalue", name |-> os[i].Name]>> \o NoValueErrs(os, i + 1)
    ELSE NoValueErrs(os, i + 1)

\* The Values in the order the groups are visited.  Go's map order is not
\* fixed; the groups are disjoint, so the order decides only the order of
\* the entries of the returned error.
ValueOrder == <<"vb", "vc", "vi", "vs", "vt">>

RECURSIVE SetDefaultsFrom(_, _)
SetDefaultsFrom(st, k) ==
    IF k > Len(ValueOrder) THEN st
    ELSE SetDefaultsFrom(SetDefaultsGroup(st, ValueOrder[k]), k + 1)

SetDefaults(os, v) ==
    SetDefaultsFrom([os |-> os, vs |-> v, log |-> <<>>, errs |-> NoValueErrs(os, 1)], 1)

(***************************************************************************)
(* Options, commands and the idle state of an invocation.                  *)
(***************************************************************************)
Cmds == {"root", "sub"}

Opt(name, flag, env, yaml, default, required, value, source) ==
    [Name |-> name, Flag |-> flag, Env |-> env, YAML |-> yaml, Default |-> default,
     Required |-> required, Value |-> value, ValueSource |-> source, Group |-> <<>>,
     CompletionHandler |-> <<>>]

\* The names of the options of a stand-alone OptionSet, by position.
OptNames == <<"alpha", "beta", "gamma", "delta">>

\* All OptionSets of 1..MaxOpts options drawn from universe U, the option
\* at position i named OptNames[i].
OptionSetsOf(U) ==
    UNION {{[i \in 1..n |-> [f[i] EXCEPT !.Name = OptNames[i]]] : f \in [1..n -> U]}
           : n \in 1..MaxOpts}

ZeroValues == [v \in ValueIds |-> ""]

\* EnumOf(&v, "binary", "text"): the Choices every Enum Value is made with;
\* a Value of another kind has none.
EnumOf ==
    [v \in ValueIds |-> IF ValueKind[v] = "enum" THEN <<"binary", "text">> ELSE <<>>]

\* The variables of Invocation.Run while no invocation is running.
\* The contexts of an Invocation: inv is inv.ctx as the caller set it (nil
\* unless WithContext was used); parent and state describe the context run
\* derives: what it was derived from, and whether it is still to be made
\* (none), made and not cancelled by run (live), or cancelled by run.
NoContext(inv) == [inv |-> inv, parent |-> "", state |-> "none"]

\* ctx := inv.ctx, context.Background() if that is nil, and WithCancel(ctx).
WithCancel(c) ==
    [c EXCEPT !.parent = IF c.inv = "nil" THEN "background" ELSE "inv.ctx",
              !.state = "live"]

\* defer cancel()
NotCancelled(c) == c
Cancelled(c) == [c EXCEPT !.state = "cancelled"]

NoRun ==
    /\ pc = "optionset"
    /\ cmd = "root"
    /\ allArgs = <<>>
    /\ depth = 0
    /\ flagParseErr = "nil"
    /\ parsedFlags = <<>>
    /\ parsedArgs = <<>>
    /\ invArgs = <<>>
    /\ files = <<>>
    /\ completion = FALSE
    /\ outcome = "none"
    /\ handlerRan = {}
    /\ tree = <<>>
    /\ ctx = NoContext("nil")
    /\ stdout = <<>>
    /\ ms = <<>>
    /\ called = <<>>
    /\ testMode = FALSE
    /\ choices = EnumOf

runVars == <<pc, cmd, allArgs, depth, flagParseErr, parsedFlags, parsedArgs, invArgs,
             files, completion, outcome, handlerRan, tree, ctx, stdout, ms, called,
             testMode, choices>>

\* How often a stand-alone operation is called on one OptionSet.
MaxCalls == 2

(***************************************************************************)
(* SetDefaults called on a stand-alone OptionSet, as the tests do.         *)
(***************************************************************************)
DefaultsOptions ==
    {Opt("", "", "", "", d, FALSE, v, s) :
        d \in Lits, v \in {"vs", "vi"}, s \in ValueSources}
    \cup {Opt("", "", "", "", "1", FALSE, NilValue, ValueSourceNone)}

InitDefaults ==
    /\ \E os \in OptionSetsOf(DefaultsOptions) : opts = [root |-> os, sub |-> <<>>]
    /\ vals = ZeroValues
    /\ setLog = <<>>
    /\ err = <<>>
    /\ environ = <<>>
    /\ calls = <<>>
    /\ prevOpts = opts
    /\ prevVals = vals
    /\ NoRun

SetDefaultsCall ==
    /\ pc = "optionset"
    /\ Len(calls) < MaxCalls
    /\ LET r == SetDefaults(opts["root"], vals) IN
        /\ opts' = [opts EXCEPT !["root"] = r.os]
        /\ vals' = r.vs
        /\ setLog' = setLog \o r.log
        /\ err' = r.errs
        /\ calls' = Append(calls, [op |-> "SetDefaults", sets |-> r.log])
    /\ prevOpts' = opts
    /\ prevVals' = vals
    /\ UNCHANGED <<environ, runVars>>

NextDefaults == SetDefaultsCall

SpecDefaults == InitDefaults /\ [][NextDefaults]_vars

(***************************************************************************)
(* ParseEnv called on a stand-alone OptionSet.                             *)
(***************************************************************************)
EnvOptions ==
    {Opt("", "", e, "", "", FALSE, v, s) :
        e \in {"", "FOO"}, v \in {"vs", "vi"}, s \in {ValueSourceNone, ValueSourceDefault}}
    \cup {Opt("", "", "BAR", "", "", FALSE, "vs", ValueSourceNone)}

EnvVars ==
    {[Name |-> n, Value |-> v] : n \in {"FOO", "HOMEBREW_FOO"}, v \in Lits}
    \cup {[Name |-> "BAR", Value |-> "1"]}

Environs == UNION {[1..n -> EnvVars] : n \in 0..MaxEnv}

InitEnv ==
    /\ \E os \in OptionSetsOf(EnvOptions) : opts = [root |-> os, sub |-> <<>>]
    /\ environ \in Environs
    /\ vals = ZeroValues
    /\ setLog = <<>>
    /\ err = <<>>
    /\ calls = <<>>
    /\ prevOpts = opts
    /\ prevVals = vals
    /\ NoRun

ParseEnvCall ==
    /\ pc = "optionset"
    /\ Len(calls) < MaxCalls
    /\ LET r == ParseEnv(opts["root"], vals, environ) IN
        /\ opts' = [opts EXCEPT !["root"] = r.os]
        /\ vals' = r.vs
        /\ setLog' = setLog \o r.log
        /\ err' = r.errs
        /\ calls' = Append(calls, [op |-> "ParseEnv", sets |-> r.log])
    /\ prevOpts' = opts
    /\ prevVals' = vals
    /\ UNCHANGED <<environ, runVars>>

NextEnv == ParseEnvCall

SpecEnv == InitEnv /\ [][NextEnv]_vars

(***************************************************************************)
(* Argument tokens.  Tok gives, for each token of the model, what the      *)
(* string operations of pflag and findArg see in it: whether it starts     *)
(* with "-", the flag name after the dashes, whether it holds "=" and the  *)
(* inline value after it.                                                  *)
(***************************************************************************)
PosTok == [k |-> "pos", name |-> "", eq |-> FALSE, v |-> ""]
LongTok(name) == [k |-> "long", name |-> name, eq |-> FALSE, v |-> ""]
LongEqTok(name, v) == [k |-> "long", name |-> name, eq |-> TRUE, v |-> v]

Tok ==
    ("sub" :> PosTok) @@ ("s" :> PosTok) @@ ("dup" :> PosTok) @@ ("twin" :> PosTok)
    @@ ("pos1" :> PosTok) @@ ("1" :> PosTok) @@ ("x" :> PosTok)
    @@ ("--flag" :> LongTok("flag")) @@ ("--flag=1" :> LongEqTok("flag", "1")) @@ ("--alpha" :> LongTok("alpha"))
    @@ ("--alpha=" :> LongEqTok("alpha", "")) @@ ("--help" :> LongTok("help"))
    @@ ("--bogus" :> LongTok("bogus")) @@ ("--version" :> LongTok("version"))
    @@ ("--type" :> LongTok("type")) @@ ("--type=" :> LongEqTok("type", ""))
    @@ ("--type=text" :> LongEqTok("type", "text")) @@ ("--alpha=1" :> LongEqTok("alpha", "1"))

(***************************************************************************)
(* The pflag.FlagSet: flag name -> flag.  A flag is shared by reference    *)
(* between the sets that hold it, so Changed lives in the set that the     *)
(* invocation carries along.                                               *)
(***************************************************************************)
\* OptionSet.FlagSet builds one pflag.Flag for an option with a Flag.
FlagOf(opt) ==
    [Name |-> opt.Flag, Value |-> opt.Value, NoOptDefVal |-> NoOptDefValue(opt.Value),
     Changed |-> FALSE, OptName |-> opt.Name]

copyFlagSetKeepingAll(fs, without) == fs
copyFlagSetWithout(fs, without) == [n \in DOMAIN fs \ {without} |-> fs[n]]

\* inv.Command.Options.FlagSet().VisitAll(...): the deeper command's flag
\* replaces an inherited flag of the same name.
RECURSIVE MergeFlags(_, _, _)
MergeFlags(fs, os, i) ==
    IF i > Len(os) THEN fs
    ELSE IF os[i].Flag = "" THEN MergeFlags(fs, os, i + 1)
    ELSE LET base == IF os[i].Flag \in DOMAIN fs
                     THEN copyFlagSetWithout(fs, os[i].Flag) ELSE fs
         IN MergeFlags(base @@ (os[i].Flag :> FlagOf(os[i])), os, i + 1)

\* The errors FlagSet.Parse returns.
ErrNil == "nil"
ErrHelp == "pflag: help requested"
ErrUnknownFlag == "unknown flag"
ErrNeedsArg == "flag needs an argument"
ErrInvalidArg == "invalid argument"

\* FlagSet.Set: Value.Set, and Changed only when it succeeded.
\*   st: fs, the flag set; vs, the Values; log, the Value.Set calls; args,
\*   the positional arguments collected; err, the error.
FlagSetSet(st, name, value) ==
    LET f == st.fs[name]
        entry == [opt |-> f.OptName, val |-> f.Value, raw |-> value, by |-> "flag"]
    IN IF SetOK(f.Value, value)
       THEN [st EXCEPT !.fs[name].Changed = TRUE,
                       !.vs[f.Value] = value,
                       !.log = Append(st.log, entry)]
       ELSE [st EXCEPT !.log = Append(st.log, entry), !.err = ErrInvalidArg]

\* FlagSet.parseLongArg for token s, with a the tokens after it: the state
\* and the tokens left.
parseLongArg(st, s, a) ==
    LET t == Tok[s] IN
    IF t.name \notin DOMAIN st.fs
    THEN [st |-> [st EXCEPT !.err = IF t.name = "help" THEN ErrHelp ELSE ErrUnknownFlag],
          rest |-> a]
    ELSE IF t.eq THEN [st |-> FlagSetSet(st, t.name, t.v), rest |-> a]
    ELSE IF st.fs[t.name].NoOptDefVal # ""
    THEN [st |-> FlagSetSet(st, t.name, st.fs[t.name].NoOptDefVal), rest |-> a]
    ELSE IF Len(a) > 0 THEN [st |-> FlagSetSet(st, t.name, Head(a)), rest |-> Tail(a)]
    ELSE [st |-> [st EXCEPT !.err = ErrNeedsArg], rest |-> a]

\* FlagSet.parseArgs: positional tokens are collected, flags are set, and
\* the first error ends the parse.
RECURSIVE parseArgs(_, _)
RECURSIVE parseArgsNotInterspersed(_, _)
parseArgsNotInterspersed(st, a) ==
    IF a = <<>> THEN st
    ELSE IF Tok[Head(a)].k = "pos" THEN [st EXCEPT !.args = st.args \o a]
    ELSE LET r == parseLongArg(st, Head(a), Tail(a)) IN
         IF r.st.err # ErrNil THEN r.st ELSE parseArgsNotInterspersed(r.st, r.rest)
parseArgs(st, a) ==
    IF a = <<>> THEN st
    ELSE IF Tok[Head(a)].k = "pos"
    THEN parseArgs([st EXCEPT !.args = Append(st.args, Head(a))], Tail(a))
    ELSE LET r == parseLongArg(st, Head(a), Tail(a)) IN
         IF r.st.err # ErrNil THEN r.st ELSE parseArgs(r.st, r.rest)

\* FlagSet.Parse(arguments)
Parse(fs, v, arguments) ==
    parseArgs([fs |-> fs, vs |-> v, log |-> <<>>, args |-> <<>>, err |-> ErrNil], arguments)

\* "Set value sources for flags": every option of the command whose flag
\* the accumulated set holds as Changed.
SetFlagSourcesNever(os, fs) == os
SetFlagSources(os, fs) ==
    [i \in 1..Len(os) |->
        IF os[i].Flag \in DOMAIN fs /\ fs[os[i].Flag].Changed
        THEN [os[i] EXCEPT !.ValueSource = ValueSourceFlag] ELSE os[i]]

\* Command.Name: the first word of Use; Use is held as its words, the
\* pieces strings.Split(c.Use, " ") gives.
Name(c) == tree[c].Use[1]

\* usageWantsArgRe.MatchString(c.Use): Use holds <...>, here a word of
\* that form.
usageWantsArgRe == {"<x>"}
UsageWantsArg(c) == \E i \in 1..Len(tree[c].Use) : tree[c].Use[i] \in usageWantsArgRe

\* The name -> child lookup of a command, and the names it meets twice: a
\* name or alias of two children, or an alias a child shares with its name.
ChildNames(c) == tree[c].Aliases \cup {Name(c)}
DuplicateNamesNone(c) == {}
DuplicateNames(c) ==
    {n \in UNION {ChildNames(ch) : ch \in tree[c].Children} :
        \/ \E a, b \in tree[c].Children : a # b /\ n \in ChildNames(a) /\ n \in ChildNames(b)
        \/ \E a \in tree[c].Children : n = Name(a) /\ n \in tree[a].Aliases}
ChildNamed(c, n) == CHOOSE ch \in tree[c].Children : n \in ChildNames(ch)
HasChildNamed(c, n) == \E ch \in tree[c].Children : n \in ChildNames(ch)

(***************************************************************************)
(* Applying a configuration file.                                          *)
(***************************************************************************)
\* Group.Ancestry: the group and all of its parents, the outermost first.
\* A Group is the sequence of the YAML names of the group, of its Parent, of
\* the Parent of that, and so on; the nil Group is the empty sequence.
RECURSIVE Ancestry(_)
Ancestry(g) == IF g = <<>> THEN <<>> ELSE Append(Ancestry(Tail(g)), Head(g))

\* strings.Join(gs, ".")
RECURSIVE Join(_)
Join(gs) ==
    IF gs = <<>> THEN ""
    ELSE IF Len(gs) = 1 THEN gs[1]
    ELSE gs[1] \o "." \o Join(Tail(gs))

\* Option.YAMLPath
YAMLPath(o) == IF o.YAML = "" THEN "" ELSE Join(Append(Ancestry(o.Group), o.YAML))

\* Whether a higher-priority source has set the Value of option i, through
\* the option itself or through an alias that shares the Value.
ResolvedAbove(os, i) ==
    \E j \in 1..Len(os) :
        os[j].Value = os[i].Value /\ os[j].ValueSource \in {ValueSourceFlag, ValueSourceEnv}

\* OptionSet.UnmarshalYAML for option i and document doc (path -> text).
UnmarshalOne(st, i, doc) ==
    LET o == st.os[i] IN
    IF YAMLPath(o) = "" \/ YAMLPath(o) \notin DOMAIN doc THEN st
    ELSE IF ResolvedAbove(st.os, i) THEN st
    ELSE SetValue([st EXCEPT !.os[i].ValueSource = ValueSourceYAML], i,
                  doc[YAMLPath(o)], "yaml")

RECURSIVE UnmarshalFrom(_, _, _)
UnmarshalFrom(st, i, doc) ==
    IF i > Len(st.os) THEN st ELSE UnmarshalFrom(UnmarshalOne(st, i, doc), i + 1, doc)

\* A key of the document that no option of the set binds is an error.
UnknownKeys(os, doc) == DOMAIN doc \ {YAMLPath(os[i]) : i \in 1..Len(os)}

UnmarshalYAML(os, v, doc) ==
    LET st == UnmarshalFrom([os |-> os, vs |-> v, log |-> <<>>, errs |-> <<>>], 1, doc)
    IN [st EXCEPT !.errs = st.errs \o
           (IF UnknownKeys(os, doc) = {} THEN <<>>
            ELSE <<[kind |-> "unknown", name |-> "yaml"]>>)]

\* OptionSet.MarshalYAML: the Value of every option with a YAML name is
\* emitted at the option's path, under the mappings of its groups; in a
\* mapping read back, a path holds what was emitted for it last.
RECURSIVE MarshalFrom(_, _, _, _)
MarshalFrom(os, v, i, doc) ==
    IF i > Len(os) THEN doc
    ELSE IF os[i].YAML = "" \/ os[i].Value = NilValue THEN MarshalFrom(os, v, i + 1, doc)
    ELSE MarshalFrom(os, v, i + 1, (YAMLPath(os[i]) :> String(os[i].Value, v[os[i].Value])) @@ doc)

MarshalYAMLWithoutGroups(os, v) ==
    MarshalFrom([i \in 1..Len(os) |-> [os[i] EXCEPT !.Group = <<>>]], v, 1, <<>>)
MarshalYAML(os, v) == MarshalFrom(os, v, 1, <<>>)

\* "Read YAML configs, if any": the loop of run over the options whose
\* Value is a YAMLConfigPath holding a path.  st.errs holds the error that
\* made the loop return.
RECURSIVE ReadConfigs(_, _)
ReadConfigs(st, i) ==
    IF i > Len(st.os) THEN st
    ELSE LET o == st.os[i]
             path == st.vs[o.Value]
         IN IF ValueKind[o.Value] # "yamlpath" \/ path = "" THEN ReadConfigs(st, i + 1)
            ELSE IF path \notin DOMAIN files
            THEN [st EXCEPT !.errs = <<[kind |-> "reading yaml", name |-> path]>>]
            ELSE LET r == UnmarshalYAML(st.os, st.vs, files[path]) IN
                 IF r.errs # <<>>
                 THEN [os |-> r.os, vs |-> r.vs, log |-> st.log \o r.log,
                       errs |-> <<[kind |-> "applying yaml", name |-> path]>>]
                 ELSE ReadConfigs([os |-> r.os, vs |-> r.vs, log |-> st.log \o r.log,
                                   errs |-> <<>>], i + 1)

(***************************************************************************)
(* Invocation.Run: Command.init, then run on the root, node after node.    *)
(***************************************************************************)
\* The order of the option names under Go's string comparison.
NameOrder == <<"alpha", "beta", "config", "flag", "type", "version">>
NameRank(n) == CHOOSE i \in 1..Len(NameOrder) : NameOrder[i] = n

\* slices.SortFunc(c.Options, by Name), an insertion sort.
RECURSIVE SinkByName(_, _)
SinkByName(os, j) ==
    IF j > 1 /\ NameRank(os[j].Name) < NameRank(os[j - 1].Name)
    THEN SinkByName([os EXCEPT ![j] = os[j - 1], ![j - 1] = os[j]], j - 1)
    ELSE os
RECURSIVE SortByNameFrom(_, _)
SortByNameFrom(os, i) ==
    IF i > Len(os) THEN os ELSE SortByNameFrom(SinkByName(os, i), i + 1)

\* Command.init names an option after its Flag, Env or YAML field.
InitName(o) ==
    IF o.Name # "" THEN o
    ELSE [o EXCEPT !.Name = IF o.Flag # "" THEN o.Flag
                            ELSE IF o.Env # "" THEN o.Env ELSE o.YAML]

\* Command.init walks the tree and makes every command the Parent of its
\* Children before it initialises them.
InitWalk(t) ==
    [c \in DOMAIN t |->
        IF \E p \in DOMAIN t : c \in t[p].Children
        THEN [t[c] EXCEPT !.Parent = CHOOSE p \in DOMAIN t : c \in t[p].Children]
        ELSE t[c]]

\* Command.init on command c with OptionSet os: names, the sort, and the
\* version flag a root with a Version gets when it declares none.
CommandInit(c, os) ==
    LET named == [i \in 1..Len(os) |-> InitName(os[i])]
        sorted == SortByNameFrom(named, 2)
        hasVersion == \E i \in 1..Len(sorted) :
                          sorted[i].Name = "version" \/ sorted[i].Flag = "version"
    IN IF InitWalk(tree)[c].Parent = "" /\ tree[c].Version # "" /\ ~hasVersion
       THEN Append(sorted, Opt("version", "version", "", "", "", FALSE, "vb", ValueSourceNone))
       ELSE sorted

\* A command's Parent is the empty string until a walk or a run sets it.
SetParents(t, c) ==
    [ch \in DOMAIN t |-> IF ch \in t[c].Children THEN [t[ch] EXCEPT !.Parent = c] ELSE t[ch]]

RunError(kind, names) == <<[kind |-> kind, name |-> "", names |-> names]>>

RunInit ==
    /\ pc = "init"
    /\ tree' = InitWalk(tree)
    /\ opts' = [c \in DOMAIN opts |-> CommandInit(c, opts[c])]
    /\ pc' = "env"
    /\ UNCHANGED <<ms, called, testMode, choices>>
    /\ UNCHANGED <<vals, setLog, err, environ, calls, prevOpts, prevVals, cmd, allArgs,
                   depth, flagParseErr, parsedFlags, parsedArgs, invArgs, files,
                   completion, outcome, handlerRan, ctx, stdout>>

\* run, lines "ParseEnv": an error ends the run.
RunParseEnv ==
    /\ pc = "env"
    /\ LET r == ParseEnv(opts[cmd], vals, environ) IN
        /\ opts' = [opts EXCEPT ![cmd] = r.os]
        /\ vals' = r.vs
        /\ setLog' = setLog \o r.log
        /\ IF r.errs # <<>>
           THEN /\ err' = RunError("parsing env", <<>>)
                /\ outcome' = "error"
                /\ pc' = "done"
           ELSE /\ pc' = "flags"
                /\ UNCHANGED <<err, outcome>>
    /\ UNCHANGED <<ms, called, testMode, choices>>
    /\ UNCHANGED <<environ, calls, prevOpts, prevVals, cmd, allArgs, depth, flagParseErr,
                   parsedFlags, parsedArgs, invArgs, files, completion, handlerRan, tree, ctx, stdout>>

\* run, from the children map to "Set value sources for flags".
RunParseFlags ==
    /\ pc = "flags"
    /\ tree' = SetParents(tree, cmd)
    /\ IF DuplicateNames(cmd) # {}
       THEN /\ err' = RunError("duplicate command name", <<>>)
            /\ outcome' = "error"
            /\ pc' = "done"
            /\ UNCHANGED <<opts, vals, setLog, flagParseErr, parsedFlags, parsedArgs>>
       ELSE LET merged == MergeFlags(parsedFlags, opts[cmd], 1)
                st == Parse(merged, vals, allArgs)
            IN /\ IF tree[cmd].RawArgs
                  THEN /\ parsedFlags' = merged
                       /\ parsedArgs' = <<>>
                       /\ opts' = [opts EXCEPT ![cmd] = SetFlagSources(opts[cmd], merged)]
                       /\ UNCHANGED <<vals, setLog, flagParseErr>>
                  ELSE /\ parsedFlags' = st.fs
                       /\ parsedArgs' = st.args
                       /\ flagParseErr' = st.err
                       /\ vals' = st.vs
                       /\ setLog' = setLog \o st.log
                       /\ opts' = [opts EXCEPT ![cmd] = SetFlagSources(opts[cmd], st.fs)]
               /\ pc' = "yaml"
               /\ UNCHANGED <<err, outcome>>
    /\ UNCHANGED <<ms, called, testMode, choices>>
    /\ UNCHANGED <<environ, calls, prevOpts, prevVals, cmd, allArgs, depth, invArgs, files,
                   completion, handlerRan, ctx, stdout>>

\* run, "Read YAML configs, if any".
RunReadYAML ==
    /\ pc = "yaml"
    /\ LET r == ReadConfigs([os |-> opts[cmd], vs |-> vals, log |-> <<>>, errs |-> <<>>], 1) IN
        /\ opts' = [opts EXCEPT ![cmd] = r.os]
        /\ vals' = r.vs
        /\ setLog' = setLog \o r.log
        /\ IF r.errs # <<>>
           THEN /\ err' = RunError(r.errs[1].kind, <<>>)
                /\ outcome' = "error"
                /\ pc' = "done"
           ELSE /\ pc' = "defaults"
                /\ UNCHANGED <<err, outcome>>
    /\ UNCHANGED <<ms, called, testMode, choices>>
    /\ UNCHANGED <<environ, calls, prevOpts, prevVals, cmd, allArgs, depth, flagParseErr,
                   parsedFlags, parsedArgs, invArgs, files, completion, handlerRan, tree, ctx, stdout>>

\* run, SetDefaults.
RunSetDefaults ==
    /\ pc = "defaults"
    /\ LET r == SetDefaults(opts[cmd], vals) IN
        /\ opts' = [opts EXCEPT ![cmd] = r.os]
        /\ vals' = r.vs
        /\ setLog' = setLog \o r.log
        /\ IF r.errs # <<>>
           THEN /\ err' = RunError("setting defaults", <<>>)
                /\ outcome' = "error"
                /\ pc' = "done"
           ELSE /\ pc' = "dispatch"
                /\ UNCHANGED <<err, outcome>>
    /\ UNCHANGED <<ms, called, testMode, choices>>
    /\ UNCHANGED <<environ, calls, prevOpts, prevVals, cmd, allArgs, depth, flagParseErr,
                   parsedFlags, parsedArgs, invArgs, files, completion, handlerRan, tree, ctx, stdout>>

\* "Run child command if found (next child only)".
NextIsChild ==
    /\ Len(parsedArgs) > depth
    /\ HasChildNamed(cmd, parsedArgs[depth + 1])

RunDescend ==
    /\ pc = "dispatch"
    /\ NextIsChild
    /\ LET child == ChildNamed(cmd, parsedArgs[depth + 1]) IN
        /\ tree' = [tree EXCEPT ![child].Parent = cmd]
        /\ cmd' = child
    /\ depth' = depth + 1
    /\ pc' = "env"
    /\ UNCHANGED <<ms, called, testMode, choices>>
    /\ UNCHANGED <<opts, vals, setLog, err, environ, calls, prevOpts, prevVals, allArgs,
                   flagParseErr, parsedFlags, parsedArgs, invArgs, files, completion,
                   outcome, handlerRan, ctx, stdout>>

\* findArg: the index of the first occurrence of want in args, skipping
\* over all flags; 0 stands for the error it returns.
RECURSIVE findArg(_, _, _, _)
findArg(want, args, fs, i) ==
    IF i > Len(args) THEN 0
    ELSE LET t == Tok[args[i]] IN
         IF t.k = "pos" THEN (IF args[i] = want THEN i ELSE findArg(want, args, fs, i + 1))
         ELSE IF t.eq THEN findArg(want, args, fs, i + 1)
         ELSE IF t.name \notin DOMAIN fs THEN 0
         ELSE IF fs[t.name].NoOptDefVal # "" THEN findArg(want, args, fs, i + 1)
         ELSE IF i = Len(args) THEN 0
         ELSE findArg(want, args, fs, i + 2)

\* The names of the Required options that are still without a source.
RECURSIVE Missing(_, _)
RECURSIVE MissingFirstOnly(_, _)
MissingFirstOnly(os, i) ==
    IF i > Len(os) THEN <<>>
    ELSE IF os[i].Required /\ os[i].ValueSource = ValueSourceNone
    THEN <<(IF os[i].Name = "" THEN os[i].Flag ELSE os[i].Name)>>
    ELSE MissingFirstOnly(os, i + 1)
Missing(os, i) ==
    IF i > Len(os) THEN <<>>
    ELSE IF os[i].Required /\ os[i].ValueSource = ValueSourceNone
    THEN <<(IF os[i].Name = "" THEN os[i].Flag ELSE os[i].Name)>> \o Missing(os, i + 1)
    ELSE Missing(os, i + 1)

\* Whether the version flag was declared and given.
VersionRequestedNever == FALSE
VersionRequested ==
    /\ tree[cmd].Version # ""
    /\ \E i \in 1..Len(opts[cmd]) : opts[cmd][i].Flag = "version"
    /\ "version" \in DOMAIN parsedFlags
    /\ parsedFlags["version"].Changed

\* inv.Args for the handler.
FinalArgsUnsliced == IF tree[cmd].RawArgs THEN allArgs ELSE parsedArgs
FinalArgs ==
    IF tree[cmd].RawArgs
    THEN IF depth = 0 THEN allArgs
         ELSE SubSeq(allArgs, findArg(Name(cmd), allArgs, parsedFlags, 1) + 1, Len(allArgs))
    ELSE SubSeq(parsedArgs, depth + 1, Len(parsedArgs))

\* The terminal command: everything of run after the child lookup.  The
\* result names how the run ends, the error returned, inv.Args and the
\* handlers invoked.
End(how, e, a, ran) == [outcome |-> how, err |-> e, args |-> a, ran |-> ran]

HelpRequested == flagParseErr = ErrHelp

EnforceRequiredDespiteHelp ==
    /\ Len(Missing(opts[cmd], 1)) > 0
    /\ ~completion
EnforceRequiredOnPath ==
    /\ Len(Missing(opts[cmd], 1)) > 0 \/ Len(Missing(opts["root"], 1)) > 0
    /\ ~completion
    /\ ~HelpRequested
EnforceRequired ==
    /\ Len(Missing(opts[cmd], 1)) > 0
    /\ ~completion
    /\ ~HelpRequested

\* RequireRangeArgs(start, end) called with got arguments: "next" when it
\* calls the next handler, "panic", or the error it returns.
RequireRangeArgs(start, end, got, hasChildren) ==
    IF start = end /\ got # start
    THEN IF start = 0
         THEN IF hasChildren THEN "unrecognized subcommand" ELSE "wanted no args"
         ELSE "wanted n args"
    ELSE IF start > 0 /\ end = -1
    THEN IF got < start THEN "wanted at least" ELSE "next"
    ELSE IF start > end THEN "panic"
    ELSE IF got < start \/ got > end THEN "wanted between"
    ELSE "next"

\* mw(inv.Command.Handler)(inv) up to the call of the Handler: a nil
\* Middleware is Chain(), which calls the Handler at once.
MiddlewareResult ==
    LET mw == tree[cmd].Middleware IN
    IF mw = <<>> THEN "next"
    ELSE RequireRangeArgs(mw[1], mw[2], Len(FinalArgs), tree[cmd].Children # {})

\* Invocation.CurWords: the last and the last but one word of inv.Args.
CurWords ==
    [cur |-> IF invArgs = <<>> THEN "" ELSE invArgs[Len(invArgs)],
     prev |-> IF Len(invArgs) < 2 THEN "" ELSE invArgs[Len(invArgs) - 1]]

\* OptionSet.ByFlag finds an option.
ByFlag(os, flag) == flag # "" /\ \E i \in 1..Len(os) : os[i].Flag = flag

\* completeFlag: nil for a word that names no flag of the command; the
\* candidates of the option's CompletionHandler when it has one, else the
\* Choices of its Enum Value, the slice itself, else nil.
completeFlag(word) ==
    IF ~ByFlag(opts[cmd], word) THEN <<>>
    ELSE LET os == opts[cmd]
             o == os[CHOOSE i \in 1..Len(os) :
                        os[i].Flag = word /\ \A j \in 1..(i - 1) : os[j].Flag # word]
         IN IF o.CompletionHandler # <<>> THEN o.CompletionHandler
            ELSE IF o.Value # NilValue /\ ValueKind[o.Value] = "enum" THEN choices[o.Value]
            ELSE <<>>

\* The candidates of the default completion handler: the names of the
\* command's children.
ChildOrder == <<"dup", "sub", "twin">>
DefaultCompletionHandler ==
    LET names == {Name(ch) : ch \in tree[cmd].Children}
        Known(n) == n \in names
    IN SelectSeq(ChildOrder, Known)

\* fmt.Sprintf("--%s=%s", flagName, o) for every o of out.
InlineFormBare(flagName, out) == out
InlineForm(flagName, out) == [i \in 1..Len(out) |-> "--" \o flagName \o "=" \o out[i]]

\* Invocation.complete
completeNothing == <<>>
complete ==
    LET w == CurWords
        long(x) == x \in DOMAIN Tok /\ Tok[x].k = "long"
    IN IF long(w.cur) /\ Tok[w.cur].eq /\ completeFlag(Tok[w.cur].name) # <<>>
       THEN InlineForm(Tok[w.cur].name, completeFlag(Tok[w.cur].name))
       ELSE IF long(w.cur) /\ ~Tok[w.cur].eq /\ ByFlag(opts[cmd], Tok[w.cur].name)
       THEN <<w.cur>>
       ELSE IF long(w.prev) /\ ~Tok[w.prev].eq /\ completeFlag(Tok[w.prev].name) # <<>>
       THEN completeFlag(Tok[w.prev].name)
       ELSE IF Name(cmd) = w.cur THEN <<Name(cmd)>>
       ELSE tree[cmd].CompletionHandler \o DefaultCompletionHandler

\* The Choices once complete has returned: out[i] = ... assigns to the
\* slice completeFlag returned, which for an Enum without a
\* CompletionHandler is the Choices of the Value; a CompletionHandler
\* returns a slice of its own.
completeAssigns ==
    LET w == CurWords
        n == Tok[w.cur].name
        os == opts[cmd]
        o == os[CHOOSE i \in 1..Len(os) : os[i].Flag = n /\ \A j \in 1..(i - 1) : os[j].Flag # n]
    IN IF /\ w.cur \in DOMAIN Tok /\ Tok[w.cur].k = "long" /\ Tok[w.cur].eq
          /\ completeFlag(n) # <<>>
          /\ o.CompletionHandler = <<>>
       THEN [choices EXCEPT ![o.Value] = InlineForm(n, choices[o.Value])]
       ELSE choices

\* The line the version flag prints.
VersionLine == Name(cmd) \o " " \o tree[cmd].Version

\* What the handler of DefaultHelpFn returns once the usage is written: an
\* UnknownSubcommandError that carries inv.Args when there are any.
DefaultHelpFnNoError == <<>>
DefaultHelpFn ==
    IF Len(FinalArgs) > 0 THEN RunError("unknown subcommand", FinalArgs) ELSE <<>>

\* "Flag parse errors are irrelevant for raw args commands": whether the
\* recorded flag-parse error ends the run at the terminal command.
FlagParseFatalNever == FALSE
FlagParseFatal == ~tree[cmd].RawArgs /\ flagParseErr # ErrNil /\ ~HelpRequested

Terminal ==
    IF completion THEN End("completion", <<>>, invArgs, {})
    ELSE IF FlagParseFatal
    THEN End("error", RunError("parsing flags", <<>>), invArgs, {})
    ELSE IF EnforceRequired
    THEN End("error", RunError("missing required", Missing(opts[cmd], 1)), invArgs, {})
    ELSE IF tree[cmd].RawArgs /\ depth > 0 /\ findArg(Name(cmd), allArgs, parsedFlags, 1) = 0
    THEN End("panic", <<>>, invArgs, {})
    ELSE IF VersionRequested THEN End("version", <<>>, FinalArgs, {})
    ELSE IF ~tree[cmd].Handler \/ HelpRequested
    THEN IF tree[cmd].HelpHandler THEN End("help", <<>>, FinalArgs, {"HelpHandler"})
         ELSE End("help", DefaultHelpFn, FinalArgs, {"DefaultHelpFn"})
    ELSE IF MiddlewareResult = "next"
    THEN End("running", <<>>, FinalArgs, {"Middleware", "Handler"})
    ELSE IF MiddlewareResult = "panic"
    THEN End("panic", <<>>, FinalArgs, {"Middleware"})
    ELSE End("handler", RunError("running command", <<MiddlewareResult>>),
             FinalArgs, {"Middleware"})

\* Command.FullName: the names of the command and its parents.
RECURSIVE FullName(_)
FullName(c) ==
    IF tree[c].Parent = "" THEN Name(c) ELSE FullName(tree[c].Parent) \o " " \o Name(c)

\* The deferred function of Run that looks at a panic: outside go test it
\* returns at once and the panic goes on as it is; under go test it
\* recovers the panic and panics again with an error that names the
\* command.  The result is the error Run returns or panics with.
RecoverAlways(how, e) ==
    IF how = "panic" THEN RunError("panic recovered", <<FullName(cmd)>>) ELSE e
Recover(how, e) ==
    IF how = "panic" /\ testMode THEN RunError("panic recovered", <<FullName(cmd)>>) ELSE e

\* run at the terminal command, up to the call of the Handler when there is
\* one to call; the context is derived just before the help handler or the
\* handler chain is invoked and cancelled when run returns.
RunTerminal ==
    /\ pc = "dispatch"
    /\ ~NextIsChild
    /\ LET t == Terminal IN
        /\ outcome' = IF t.outcome = "running" THEN outcome ELSE t.outcome
        /\ err' = Recover(t.outcome, t.err)
        /\ invArgs' = t.args
        /\ handlerRan' = t.ran
        /\ pc' = IF t.outcome = "running" THEN "handler" ELSE "done"
        /\ ctx' = IF t.outcome = "running" THEN WithCancel(ctx)
                  ELSE IF t.ran # {} THEN Cancelled(WithCancel(ctx)) ELSE ctx
        /\ stdout' = IF t.outcome = "completion" THEN complete
                     ELSE IF t.outcome = "version" THEN <<VersionLine>>
                     ELSE stdout
        /\ choices' = IF t.outcome = "completion" THEN completeAssigns ELSE choices
    /\ UNCHANGED <<ms, called, testMode>>
    /\ UNCHANGED <<opts, vals, setLog, environ, calls, prevOpts, prevVals, cmd, allArgs,
                   depth, flagParseErr, parsedFlags, parsedArgs, files, completion, tree>>

\* The Handler returns, fails or panics; run returns (or unwinds) and its
\* deferred cancel runs.
RunHandlerReturn ==
    /\ pc = "handler"
    /\ LET r == tree[cmd].HandlerResult IN
        /\ outcome' = IF r = "panic" THEN "panic" ELSE "handler"
        /\ err' = Recover(IF r = "panic" THEN "panic" ELSE "handler",
                          IF r = "error" THEN RunError("running command", <<"handler">>)
                          ELSE <<>>)
    /\ ctx' = Cancelled(ctx)
    /\ pc' = "done"
    /\ UNCHANGED <<ms, called, testMode, choices>>
    /\ UNCHANGED <<opts, vals, setLog, environ, calls, prevOpts, prevVals, cmd, allArgs,
                   depth, flagParseErr, parsedFlags, parsedArgs, invArgs, files,
                   completion, handlerRan, tree, stdout>>

Next ==
    \/ RunInit
    \/ RunParseEnv
    \/ RunParseFlags
    \/ RunReadYAML
    \/ RunSetDefaults
    \/ RunDescend
    \/ RunTerminal
    \/ RunHandlerReturn

(***************************************************************************)
(* The YAML round trip of TestOptionSet_YAMLIsomorphism: SetDefaults, then *)
(* MarshalYAML, then UnmarshalYAML into a clone with zeroed Values.        *)
(***************************************************************************)
YAMLGroups == {<<>>, <<"kids">>, <<"kids", "family">>}

YAMLOptions ==
    {[Opt("", "", "", yaml, default, FALSE, value, ValueSourceNone) EXCEPT !.Group = g] :
        yaml \in {"", "names"}, default \in Lits, value \in {"vs", "vi"}, g \in YAMLGroups}

InitYAML ==
    /\ \E os \in OptionSetsOf(YAMLOptions) : opts = [root |-> os, sub |-> <<>>]
    /\ vals = ZeroValues
    /\ setLog = <<>>
    /\ err = <<>>
    /\ environ = <<>>
    /\ calls = <<>>
    /\ prevOpts = opts
    /\ prevVals = vals
    /\ pc = "setdefaults"
    /\ cmd = "root"
    /\ allArgs = <<>>
    /\ depth = 0
    /\ flagParseErr = ErrNil
    /\ parsedFlags = <<>>
    /\ parsedArgs = <<>>
    /\ invArgs = <<>>
    /\ files = <<>>
    /\ completion = FALSE
    /\ outcome = "none"
    /\ handlerRan = {}
    /\ tree = <<>>
    /\ ctx = NoContext("nil")
    /\ stdout = <<>>
    /\ ms = <<>>
    /\ called = <<>>
    /\ testMode = TRUE
    /\ choices = EnumOf

YAMLFrame ==
    UNCHANGED <<environ, calls, cmd, allArgs, depth, flagParseErr, parsedFlags, parsedArgs,
                invArgs, completion, outcome, handlerRan, tree, ctx, stdout, ms, called,
                testMode, choices>>

\* err := tc.os.SetDefaults(); require.NoError
YAMLSetDefaults ==
    /\ pc = "setdefaults"
    /\ LET r == SetDefaults(opts["root"], vals) IN
        /\ opts' = [opts EXCEPT !["root"] = r.os]
        /\ vals' = r.vs
        /\ setLog' = r.log
        /\ err' = r.errs
        /\ pc' = IF r.errs = <<>> THEN "marshal" ELSE "failed"
    /\ UNCHANGED <<prevOpts, prevVals, files>>
    /\ YAMLFrame

\* y, err := tc.os.MarshalYAML(), written out and read back as a document
YAMLMarshal ==
    /\ pc = "marshal"
    /\ files' = ("y2" :> MarshalYAML(opts["root"], vals))
    /\ pc' = "unmarshal"
    /\ UNCHANGED <<opts, vals, setLog, err, prevOpts, prevVals>>
    /\ YAMLFrame

\* os2 is the clone with zeroed Values and ValueSource none;
\* err = os2.UnmarshalYAML(&y2).  tc.os is kept in prevOpts and prevVals.
YAMLUnmarshal ==
    /\ pc = "unmarshal"
    /\ LET os2 == [i \in 1..Len(opts["root"]) |->
                      [opts["root"][i] EXCEPT !.ValueSource = ValueSourceNone]]
           r == UnmarshalYAML(os2, ZeroValues, files["y2"])
       IN /\ opts' = [opts EXCEPT !["root"] = r.os]
          /\ vals' = r.vs
          /\ setLog' = r.log
          /\ err' = r.errs
    /\ prevOpts' = opts
    /\ prevVals' = vals
    /\ pc' = "compared"
    /\ UNCHANGED files
    /\ YAMLFrame

NextYAML == YAMLSetDefaults \/ YAMLMarshal \/ YAMLUnmarshal

SpecYAML == InitYAML /\ [][NextYAML]_vars

(***************************************************************************)
(* Chain.  A HandlerFunc is the sequence of the functions a call of it      *)
(* runs, outermost first; a middleware is known by the place it has in the *)
(* arguments of Chain and either calls its next handler or returns         *)
(* without calling it.                                                     *)
(***************************************************************************)
MaxMw == 5

Middleware(id, does) == [id |-> id, does |-> does]
TheHandler == <<[id |-> 0, does |-> "handler"]>>

\* m(next): the handler a middleware returns runs m, which may call next.
Wrap(m, next) == <<m>> \o next

\* chain(ms...)(next)
RECURSIVE chain(_, _)
chain(list, next) ==
    IF Len(list) > 0 THEN chain(Tail(list), Wrap(Head(list), next)) ELSE next

\* reversed[len(ms)-1-i] = ms[i]
NotReversed(list) == list
Reversed(list) == [j \in 1..Len(list) |-> list[Len(list) + 1 - j]]

\* Chain(ms...)(next)
Chain(list, next) == chain(Reversed(list), next)

InitChain ==
    /\ \E n \in 0..MaxMw : \E does \in [1..n -> {"next", "return"}] :
        ms = [i \in 1..n |-> Middleware(i, does[i])]
    /\ called = <<>>
    /\ opts = [root |-> <<>>, sub |-> <<>>]
    /\ vals = ZeroValues
    /\ setLog = <<>>
    /\ err = <<>>
    /\ environ = <<>>
    /\ calls = <<>>
    /\ prevOpts = opts
    /\ prevVals = vals
    /\ pc = "chain"
    /\ cmd = "root"
    /\ allArgs = <<>>
    /\ depth = 0
    /\ flagParseErr = ErrNil
    /\ parsedFlags = <<>>
    /\ parsedArgs = <<>>
    /\ invArgs = <<>>
    /\ files = <<>>
    /\ completion = FALSE
    /\ outcome = "none"
    /\ handlerRan = {}
    /\ tree = <<>>
    /\ ctx = NoContext("nil")
    /\ stdout = <<>>
    /\ testMode = FALSE
    /\ choices = EnumOf

\* One call: Chain(ms...)(handler) is invoked, or the function that runs
\* calls its next.
ChainCall ==
    /\ pc = "chain"
    /\ LET h == Chain(ms, TheHandler) IN
        /\ Len(called) < Len(h)
        /\ called # <<>> => called[Len(called)].does = "next"
        /\ called' = Append(called, h[Len(called) + 1])
    /\ UNCHANGED <<opts, vals, setLog, err, environ, calls, prevOpts, prevVals, pc, cmd,
                   allArgs, depth, flagParseErr, parsedFlags, parsedArgs, invArgs, files,
                   completion, outcome, handlerRan, tree, ctx, stdout, ms, testMode,
                   choices>>

NextChain == ChainCall

SpecChain == InitChain /\ [][NextChain]_vars

(***************************************************************************)
(* The invocations the model runs: a root command with one child, sub.     *)
(***************************************************************************)
Command(children, handler, helpHandler) ==
    [Use |-> <<"unnamed">>, Aliases |-> {}, Children |-> children, RawArgs |-> FALSE,
     Handler |-> handler, HelpHandler |-> helpHandler, HandlerResult |-> "ok",
     Middleware |-> <<>>, CompletionHandler |-> <<>>, Version |-> "", Parent |-> ""]

\* The tree of most invocations: root with its child sub; root has a
\* Handler when h holds, and only sub has a HelpHandler of its own.
RootAndSub(h) ==
    [root |-> [Command({"sub"}, h, FALSE) EXCEPT !.Use = <<"root">>],
     sub |-> [Command({}, TRUE, TRUE) EXCEPT !.Use = <<"sub">>]]

\* All argument vectors of at most MaxArgs tokens drawn from T.
ArgVectors(T) == UNION {[1..n -> T] : n \in 0..MaxArgs}

EnvVar(n, v) == [Name |-> n, Value |-> v]

\* The variables a fresh Invocation starts with; inv.ctx is nil unless
\* the caller used WithContext, and test tells whether the process runs
\* under go test.
FreshRunIn(invCtx, test) ==
    /\ testMode = test
    /\ vals = ZeroValues
    /\ setLog = <<>>
    /\ err = <<>>
    /\ calls = <<>>
    /\ prevOpts = opts
    /\ prevVals = vals
    /\ pc = "init"
    /\ cmd = "root"
    /\ depth = 0
    /\ flagParseErr = ErrNil
    /\ parsedFlags = <<>>
    /\ parsedArgs = <<>>
    /\ invArgs = allArgs
    /\ outcome = "none"
    /\ handlerRan = {}
    /\ ctx = NoContext(invCtx)
    /\ stdout = <<>>
    /\ ms = <<>>
    /\ called = <<>>
    /\ choices = EnumOf

FreshRunWith(invCtx) == FreshRunIn(invCtx, FALSE)
FreshRun == FreshRunWith("nil")

\* Resolution: one option, alpha, bound to a flag, an environment variable,
\* a configuration key and a default, with or without an alias, beta, that
\* shares its Value; the configuration file is named by CONFIG.
ResolveTokens == {"--alpha", "--alpha=", "1", "sub"}
ResolveDocs == {<<>>, "alpha" :> "1", "bogus" :> "1"}

InitResolve ==
    /\ \E dA \in {"", "1"}, kA \in {"vs", "vi"}, alias \in BOOLEAN :
        opts = [root |->
                   <<Opt("config", "", "CONFIG", "", "", FALSE, "vc", ValueSourceNone)>>
                   \o (IF alias
                       THEN <<Opt("beta", "", "", "", "x", FALSE, kA, ValueSourceNone)>>
                       ELSE <<>>)
                   \o <<Opt("", "alpha", "ALPHA", "alpha", dA, FALSE, kA, ValueSourceNone)>>,
                sub |-> <<Opt("flag", "flag", "", "", "", FALSE, "vt", ValueSourceNone)>>]
    /\ \E a \in {"absent", "", "1", "x"}, c \in {"absent", "cfg", "nofile"} :
        environ = (IF a = "absent" THEN <<>> ELSE <<EnvVar("ALPHA", a)>>)
                  \o (IF c = "absent" THEN <<>> ELSE <<EnvVar("CONFIG", c)>>)
    /\ \E doc \in ResolveDocs :
        /\ files = ("cfg" :> doc)
        /\ (\A k \in 1..Len(environ) : environ[k].Value # "cfg") => doc = <<>>
    /\ allArgs \in ArgVectors(ResolveTokens)
    /\ completion = FALSE
    /\ tree = RootAndSub(TRUE)
    /\ FreshRun

\* Dispatch: flags, inline flag values and positional arguments in front
\* of and behind the name of the child.
DispatchTokens == {"sub", "pos1", "--flag", "--flag=1", "--alpha", "--help"}

InitDispatch ==
    /\ \E reqF \in BOOLEAN :
        opts = [root |->
                   <<Opt("beta", "", "", "", "", FALSE, "vi", ValueSourceNone),
                     Opt("alpha", "alpha", "", "", "", FALSE, "vs", ValueSourceNone)>>,
                sub |-> <<Opt("flag", "flag", "", "", "", reqF, "vt", ValueSourceNone)>>]
    /\ environ = <<>>
    /\ files = <<>>
    /\ allArgs \in ArgVectors(DispatchTokens)
    /\ completion = FALSE
    /\ \E h \in BOOLEAN :
        tree = RootAndSub(h)
    /\ FreshRun

\* Required options: alpha and beta of the root and flag of the child may
\* each be Required; beta has no binding at all and alpha may have a default.
RequiredTokens == {"sub", "--alpha", "--flag", "--help"}

InitRequired ==
    /\ \E dA \in {"", "1"}, reqA, reqB, reqF \in BOOLEAN :
        opts = [root |->
                   <<Opt("beta", "", "", "", "", reqB, "vi", ValueSourceNone),
                     Opt("alpha", "alpha", "", "", dA, reqA, "vs", ValueSourceNone)>>,
                sub |-> <<Opt("flag", "flag", "", "", "", reqF, "vt", ValueSourceNone)>>]
    /\ environ = <<>>
    /\ files = <<>>
    /\ allArgs \in ArgVectors(RequiredTokens)
    /\ completion \in BOOLEAN
    /\ \E h \in BOOLEAN :
        tree = RootAndSub(h)
    /\ FreshRun

\* Override: the child defines the flag alpha anew, bound to a Value of its
\* own; the root's second flag is inherited as it is.
OverrideTokens == {"sub", "--alpha", "--flag=1", "x"}

InitOverride ==
    /\ \E dS \in {"", "1"} :
        opts = [root |->
                   <<Opt("alpha", "alpha", "", "", "", FALSE, "vs", ValueSourceNone),
                     Opt("flag", "flag", "", "", "", FALSE, "vi", ValueSourceNone)>>,
                sub |-> <<Opt("alpha", "alpha", "", "", dS, FALSE, "vt", ValueSourceNone)>>]
    /\ environ = <<>>
    /\ files = <<>>
    /\ allArgs \in ArgVectors(OverrideTokens)
    /\ completion = FALSE
    /\ tree = RootAndSub(TRUE)
    /\ FreshRun

Init == InitResolve \/ InitDispatch \/ InitRequired \/ InitOverride

Spec == Init /\ [][Next]_vars

\* Raw arguments: the root, the child or both receive unparsed arguments;
\* the child may have the alias s.
RawTokens == {"sub", "s", "--help", "--flag=1", "--alpha", "x"}

InitRaw ==
    /\ opts = [root |-> <<Opt("alpha", "alpha", "", "", "", FALSE, "vs", ValueSourceNone)>>,
               sub |-> <<Opt("flag", "flag", "", "", "", FALSE, "vt", ValueSourceNone)>>]
    /\ environ = <<>>
    /\ files = <<>>
    /\ allArgs \in ArgVectors(RawTokens)
    /\ completion = FALSE
    /\ \E rawRoot, rawSub \in BOOLEAN, aliases \in {{}, {"s"}} :
        tree = [root |-> [RootAndSub(TRUE).root EXCEPT !.RawArgs = rawRoot],
                sub |-> [RootAndSub(TRUE).sub EXCEPT !.RawArgs = rawSub,
                                                     !.Aliases = aliases]]
    /\ FreshRun

SpecRaw == InitRaw /\ [][Next]_vars

\* Unknown subcommands: the root has a Handler or not, a HelpHandler of its
\* own or not, and its Handler stands behind RequireNArgs(0) or behind no
\* Middleware at all; the Use of the root declares a positional argument,
\* "root <x>", or none.
UnknownTokens == {"sub", "x", "pos1", "--alpha", "--help", "--bogus"}

InitUnknown ==
    /\ opts = [root |-> <<Opt("alpha", "alpha", "", "", "", FALSE, "vs", ValueSourceNone)>>,
               sub |-> <<Opt("flag", "flag", "", "", "", FALSE, "vt", ValueSourceNone)>>]
    /\ environ = <<>>
    /\ files = <<>>
    /\ allArgs \in ArgVectors(UnknownTokens)
    /\ completion = FALSE
    /\ \E h, hh \in BOOLEAN, mw \in {<<>>, <<0, 0>>} :
        /\ ~h => mw = <<>>
        /\ \E use \in {<<"root">>, <<"root", "<x>">>} :
            tree = [RootAndSub(h) EXCEPT !.root.HelpHandler = hh, !.root.Middleware = mw,
                                         !.root.Use = use]
    /\ FreshRun

SpecUnknown == InitUnknown /\ [][Next]_vars

\* Duplicates: two more commands, dup and twin, are the children of the
\* root (next to sub) or of sub; twin may be named dup, dup may have the
\* alias twin, and both may have the alias s.
DupTokens == {"sub", "dup", "s", "--help"}

InitDup ==
    /\ opts = [root |-> <<Opt("alpha", "alpha", "", "", "", FALSE, "vs", ValueSourceNone)>>,
               sub |-> <<Opt("flag", "flag", "", "", "", FALSE, "vt", ValueSourceNone)>>,
               dup |-> <<>>,
               twin |-> <<>>]
    /\ environ = <<>>
    /\ files = <<>>
    /\ allArgs \in ArgVectors(DupTokens)
    /\ completion \in BOOLEAN
    /\ \E parent \in {"root", "sub"}, twinUse \in {"twin", "dup"},
          dupAliases \in {{}, {"s"}, {"twin"}}, twinAliases \in {{}, {"s"}} :
        tree = [root |-> [Command(IF parent = "root" THEN {"sub", "dup", "twin"} ELSE {"sub"},
                                  TRUE, FALSE) EXCEPT !.Use = <<"root">>],
                sub |-> [Command(IF parent = "sub" THEN {"dup", "twin"} ELSE {},
                                 TRUE, TRUE) EXCEPT !.Use = <<"sub">>],
                dup |-> [Command({}, TRUE, TRUE) EXCEPT !.Use = <<"dup">>, !.Aliases = dupAliases],
                twin |-> [Command({}, TRUE, TRUE) EXCEPT !.Use = <<twinUse>>,
                                                         !.Aliases = twinAliases]]
    /\ FreshRun

SpecDup == InitDup /\ [][Next]_vars

\* Versions: the root and the child have a Version or none; the root gets
\* its version flag from Command.init, the child has one only if it declares
\* it; alpha of the root may be Required.
VersionTokens == {"sub", "--version", "--help", "--alpha"}

InitVersion ==
    /\ \E reqA, declared \in BOOLEAN :
        opts = [root |-> <<Opt("alpha", "alpha", "", "", "", reqA, "vs", ValueSourceNone)>>,
                sub |-> IF declared
                        THEN <<Opt("version", "version", "", "", "", FALSE, "vb",
                                   ValueSourceNone)>>
                        ELSE <<>>]
    /\ environ = <<>>
    /\ files = <<>>
    /\ allArgs \in ArgVectors(VersionTokens)
    /\ completion = FALSE
    /\ \E h \in BOOLEAN, rootVersion \in {"", "1.0"}, subVersion \in {"", "2.0"} :
        tree = [RootAndSub(h) EXCEPT !.root.Version = rootVersion,
                                     !.sub.Version = subVersion]
    /\ FreshRun

SpecVersion == InitVersion /\ [][Next]_vars

\* Completion of flag values: the root has the option alpha; the root or
\* its child has the option type with an Enum Value, with a
\* CompletionHandler, or with neither; invocations in completion mode and
\* outside it.
EnumTokens == {"sub", "--type", "--type=", "--type=text", "--alpha=1"}

InitEnum ==
    /\ \E kind \in {"enum", "handler", "plain"}, at \in Cmds :
        LET type == IF kind = "enum"
                    THEN Opt("type", "type", "", "", "", FALSE, "ve", ValueSourceNone)
                    ELSE IF kind = "handler"
                    THEN [Opt("type", "type", "", "", "", FALSE, "vs", ValueSourceNone)
                            EXCEPT !.CompletionHandler = <<"h1", "h2">>]
                    ELSE Opt("type", "type", "", "", "", FALSE, "vs", ValueSourceNone)
            alpha == Opt("alpha", "alpha", "", "", "", FALSE, "vt", ValueSourceNone)
        IN opts = [root |-> IF at = "root" THEN <<alpha, type>> ELSE <<alpha>>,
                   sub |-> IF at = "sub" THEN <<type>> ELSE <<>>]
    /\ environ = <<>>
    /\ files = <<>>
    /\ allArgs \in ArgVectors(EnumTokens)
    /\ completion \in BOOLEAN
    /\ \E h \in BOOLEAN : tree = RootAndSub(h)
    /\ FreshRun

SpecEnum == InitEnum /\ [][Next]_vars

\* Contexts: the Handler of either command succeeds, returns an error or
\* panics; the root has a Handler or not, stands behind RequireNArgs(0) or
\* not, and the caller may have given the Invocation a context.
ContextTokens == {"sub", "x", "--help"}

InitContext ==
    /\ opts = [root |-> <<Opt("alpha", "alpha", "", "", "", FALSE, "vs", ValueSourceNone)>>,
               sub |-> <<Opt("flag", "flag", "", "", "", FALSE, "vt", ValueSourceNone)>>]
    /\ environ = <<>>
    /\ files = <<>>
    /\ allArgs \in ArgVectors(ContextTokens)
    /\ completion = FALSE
    /\ \E h \in BOOLEAN, mw \in {<<>>, <<0, 0>>}, result \in {"ok", "error", "panic"} :
        /\ ~h => mw = <<>> /\ result = "ok"
        /\ tree = [RootAndSub(h) EXCEPT !.root.Middleware = mw,
                                        !.root.HandlerResult = result,
                                        !.sub.HandlerResult = result]
    /\ \E invCtx \in {"nil", "set"} : FreshRunWith(invCtx)

SpecContext == InitContext /\ [][Next]_vars

\* Panics: the Handler of either command succeeds, returns an error or
\* panics, under go test and outside it.
PanicTokens == {"sub", "x"}

InitPanic ==
    /\ opts = [root |-> <<Opt("alpha", "alpha", "", "", "", FALSE, "vs", ValueSourceNone)>>,
               sub |-> <<Opt("flag", "flag", "", "", "", FALSE, "vt", ValueSourceNone)>>]
    /\ environ = <<>>
    /\ files = <<>>
    /\ allArgs \in ArgVectors(PanicTokens)
    /\ completion = FALSE
    /\ \E rootResult, subResult \in {"ok", "error", "panic"} :
        tree = [RootAndSub(TRUE) EXCEPT !.root.HandlerResult = rootResult,
                                       !.sub.HandlerResult = subResult]
    /\ \E test \in BOOLEAN : FreshRunIn("nil", test)

SpecPanic == InitPanic /\ [][Next]_vars

\* Argument counts: the Handler of the root stands behind
\* RequireRangeArgs(start, end), end being -1 for "at least start"; the
\* root has its child or none.
MaxStart == 2
MaxEnd == 2
RangeTokens == {"x", "sub"}

InitRange ==
    /\ opts = [root |-> <<Opt("alpha", "alpha", "", "", "", FALSE, "vs", ValueSourceNone)>>,
               sub |-> <<Opt("flag", "flag", "", "", "", FALSE, "vt", ValueSourceNone)>>]
    /\ environ = <<>>
    /\ files = <<>>
    /\ allArgs \in ArgVectors(RangeTokens)
    /\ completion = FALSE
    /\ \E start \in 0..MaxStart, end \in -1..MaxEnd, children \in {{}, {"sub"}} :
        tree = [RootAndSub(TRUE) EXCEPT !.root.Middleware = <<start, end>>,
                                       !.root.Children = children]
    /\ FreshRun

SpecRange == InitRange /\ [][Next]_vars

(***************************************************************************)
(* Claims about SetDefaults (specification SpecDefaults).                  *)
(***************************************************************************)
\* The positions of OptionSet os whose option holds Value v.
Members(os, v) == {i \in 1..Len(os) : os[i].Value = v}

\* The highest-priority source the options at positions S carry.
BestSource(os, S) ==
    CHOOSE s \in {os[i].ValueSource : i \in S} :
        \A i \in S : SourceIndex(s) <= SourceIndex(os[i].ValueSource)

\* The non-empty Default literals the options at positions S declare.
DefaultsOf(os, S) == {os[i].Default : i \in S} \ {""}

AfterFirstCall == Len(calls) = 1

\* C3: after SetDefaults returns, with or without an error, all options that
\* share one Value carry the same ValueSource: the highest-priority source
\* any of them had before the call, else default if a member declares a
\* default, else none.
C3_AliasesShareSource ==
    AfterFirstCall =>
        \A i \in 1..Len(opts["root"]) :
            LET before == prevOpts["root"]
                v == before[i].Value
                S == Members(before, v)
                best == BestSource(before, S)
                want == IF best # ValueSourceNone THEN best
                        ELSE IF DefaultsOf(before, S) # {} THEN ValueSourceDefault
                        ELSE ValueSourceNone
            IN v # NilValue => opts["root"][i].ValueSource = want

\* C3 witness: two aliases came in with different sources, the call returned
\* and both carry the higher one.
C3_Witness ==
    /\ AfterFirstCall
    /\ \E i, j \in 1..Len(opts["root"]) :
        /\ i # j
        /\ prevOpts["root"][i].Value = prevOpts["root"][j].Value
        /\ prevOpts["root"][i].Value # NilValue
        /\ prevOpts["root"][i].ValueSource = ValueSourceEnv
        /\ prevOpts["root"][j].ValueSource = ValueSourceNone
        /\ prevOpts["root"][j].Default # ""
        /\ opts["root"][j].ValueSource = ValueSourceEnv

\* The OptionSet before the call is one alias group of two or more options,
\* none of which has a ValueSource, holding Value v.
OneFreshGroup(v) ==
    LET before == prevOpts["root"] IN
    /\ AfterFirstCall
    /\ v # NilValue
    /\ Len(before) >= 2
    /\ \A i \in 1..Len(before) :
        before[i].Value = v /\ before[i].ValueSource = ValueSourceNone

AllOf(os) == 1..Len(os)

\* C7 as stated: differing non-empty defaults give an error; equal ones give
\* no error, the Value set from the literal and every member marked default.
C7_AsStated ==
    \A v \in ValueIds :
        OneFreshGroup(v) =>
            LET D == DefaultsOf(prevOpts["root"], AllOf(prevOpts["root"])) IN
            /\ Cardinality(D) >= 2 => err # <<>>
            /\ Cardinality(D) = 1 =>
                /\ err = <<>>
                /\ \A d \in D : vals[v] = d
                /\ \A i \in AllOf(opts["root"]) :
                    opts["root"][i].ValueSource = ValueSourceDefault

\* C7 amended: differing non-empty defaults give an error; equal ones have
\* Value.Set called with the literal once and every member marked default,
\* and the call returns no error exactly when Value.Set accepts the literal,
\* in which case the Value holds the literal.
C7_DefaultConflict ==
    \A v \in ValueIds :
        OneFreshGroup(v) =>
            LET D == DefaultsOf(prevOpts["root"], AllOf(prevOpts["root"])) IN
            /\ Cardinality(D) >= 2 => err # <<>>
            /\ Cardinality(D) = 1 =>
                \A d \in D :
                    /\ Len(calls[1].sets) = 1
                    /\ calls[1].sets[1].val = v /\ calls[1].sets[1].raw = d
                    /\ (err = <<>>) <=> SetOK(v, d)
                    /\ SetOK(v, d) => vals[v] = d
                    /\ \A i \in AllOf(opts["root"]) :
                        opts["root"][i].ValueSource = ValueSourceDefault

\* C7 witness: two aliases without a source declare different defaults and
\* the call returned an error.
C7_Witness ==
    /\ OneFreshGroup("vs")
    /\ Cardinality(DefaultsOf(prevOpts["root"], AllOf(prevOpts["root"]))) = 2
    /\ err # <<>>

\* C8: a second SetDefaults on an OptionSet that SetDefaults has processed
\* calls no Value.Set and changes no ValueSource and no Value.
C8_SecondCallIsNoOp ==
    Len(calls) >= 2 =>
        /\ calls[Len(calls)].sets = <<>>
        /\ opts = prevOpts
        /\ vals = prevVals

\* C8 witness: the first call applied a default to an alias group of two,
\* and the second call has returned.
C8_Witness ==
    /\ Len(calls) = 2
    /\ calls[1].sets # <<>>
    /\ Len(opts["root"]) >= 2
    /\ opts["root"][1].Value = opts["root"][2].Value
    /\ opts["root"][1].ValueSource = ValueSourceDefault

(***************************************************************************)
(* Claims about ParseEnv (specification SpecEnv).                          *)
(***************************************************************************)
\* The Value.Set calls of the first call made for the option named n.
SetsFor(n) == {k \in 1..Len(calls[1].sets) : calls[1].sets[k].opt = n}

\* What the snapshot holds for binding e, by the rule of the claim: the
\* variable e itself when the snapshot names it, HOMEBREW_e only otherwise;
\* "absent" when neither is named.
Bound(e) ==
    IF \E k \in 1..Len(environ) : environ[k].Name = e THEN EnvGet(environ, e)
    ELSE IF \E k \in 1..Len(environ) : environ[k].Name = "HOMEBREW_" \o e
    THEN EnvGet(environ, "HOMEBREW_" \o e)
    ELSE "absent"

Supplies(e) == e # "" /\ Bound(e) \notin {"absent", ""}

\* C9: an option with an Env binding is set from the variable Env when the
\* snapshot names it and from HOMEBREW_<Env> only when it does not; Set is
\* called and the source becomes env iff the value found is non-empty, and
\* otherwise neither Set is called for the option nor its source changes, and
\* the Value is untouched unless an alias supplied one.
C9_EnvLookup ==
    AfterFirstCall =>
        \A i \in 1..Len(opts["root"]) :
            LET before == prevOpts["root"][i]
                now == opts["root"][i]
            IN before.Env # "" =>
                IF Supplies(before.Env)
                THEN /\ now.ValueSource = ValueSourceEnv
                     /\ Cardinality(SetsFor(before.Name)) = 1
                     /\ \A k \in SetsFor(before.Name) :
                            /\ calls[1].sets[k].raw = Bound(before.Env)
                            /\ calls[1].sets[k].val = before.Value
                ELSE /\ now.ValueSource = before.ValueSource
                     /\ SetsFor(before.Name) = {}
                     /\ (\A j \in Members(prevOpts["root"], before.Value) :
                            ~Supplies(prevOpts["root"][j].Env))
                        => vals[before.Value] = prevVals[before.Value]

\* C9 witness: FOO is absent, HOMEBREW_FOO holds a non-empty value, and the
\* option bound to FOO was set from it.
C9_Witness ==
    /\ AfterFirstCall
    /\ ~EnvHas(environ, "FOO")
    /\ EnvHas(environ, "HOMEBREW_FOO")
    /\ \E i \in 1..Len(opts["root"]) :
        /\ opts["root"][i].Env = "FOO"
        /\ opts["root"][i].ValueSource = ValueSourceEnv
        /\ vals[opts["root"][i].Value] = EnvGet(environ, "HOMEBREW_FOO")
        /\ vals[opts["root"][i].Value] # ""

\* Whether the environment value of option o fails to parse.
EnvFails(o) == Supplies(o.Env) /\ ~SetOK(o.Value, Bound(o.Env))

\* C10: ParseEnv goes on after a failed Value.Set: every option whose value
\* parses is set and marked env, and the returned error has exactly one
\* entry for each option whose value failed to parse.
C10_EnvErrorsCollected ==
    AfterFirstCall =>
        LET before == prevOpts["root"] IN
        /\ \A i \in 1..Len(before) :
            (Supplies(before[i].Env) /\ ~EnvFails(before[i])) =>
                /\ opts["root"][i].ValueSource = ValueSourceEnv
                /\ \E k \in SetsFor(before[i].Name) :
                    calls[1].sets[k].raw = Bound(before[i].Env)
                /\ \A k \in 1..Len(err) : err[k].name # before[i].Name
        /\ \A i \in 1..Len(before) :
            EnvFails(before[i]) =>
                Cardinality({k \in 1..Len(err) : err[k].name = before[i].Name}) = 1
        /\ Len(err) = Cardinality({i \in 1..Len(before) : EnvFails(before[i])})

\* C10 witness: the first option's value failed to parse and the second
\* option was still set from the environment.
C10_Witness ==
    /\ AfterFirstCall
    /\ Len(opts["root"]) >= 2
    /\ EnvFails(prevOpts["root"][1])
    /\ opts["root"][2].ValueSource = ValueSourceEnv
    /\ prevOpts["root"][2].ValueSource = ValueSourceNone
    /\ vals[opts["root"][2].Value] = Bound(opts["root"][2].Env)
    /\ Len(err) = 1

(***************************************************************************)
(* Claims about Invocation.Run (specification Spec).                       *)
(***************************************************************************)
\* The errors that end run before the terminal command is looked at.
ResolutionErrors ==
    {"parsing env", "duplicate command name", "reading yaml", "applying yaml",
     "setting defaults"}

\* Run has ended, and it ended in the part of run that follows the child
\* lookup.
TerminalReached ==
    /\ pc = "done"
    /\ ~(outcome = "error" /\ err[1].kind \in ResolutionErrors)

\* The node's env, flag, configuration and default stages have all run.
Resolved == pc = "dispatch"

\* The successful Value.Set calls made on Value v by a source in B.
SetBy(v, B) ==
    {k \in 1..Len(setLog) :
        setLog[k].val = v /\ setLog[k].by \in B /\ SetOK(v, setLog[k].raw)}

\* The configuration document the command's YAMLConfigPath option names.
ConfigDoc == IF vals["vc"] \in DOMAIN files THEN files[vals["vc"]] ELSE <<>>

\* The sources that supplied a value to one of the options at positions S of
\* the current command; a flag counts when pflag set the Value to a text
\* in Given.
SuppliedTo(S, Given) ==
    LET os == opts[cmd] IN
    {src \in ValueSources :
        \/ /\ src = ValueSourceFlag
           /\ \E i \in S : \E k \in SetBy(os[i].Value, {"flag"}) : setLog[k].raw \in Given
        \/ src = ValueSourceEnv /\ \E i \in S : Supplies(os[i].Env)
        \/ src = ValueSourceYAML
           /\ \E i \in S : os[i].YAML # "" /\ os[i].YAML \in DOMAIN ConfigDoc
        \/ src = ValueSourceDefault /\ \E i \in S : os[i].Default # ""}

\* The highest-priority member of a set of sources, none for the empty set.
Highest(B) ==
    IF B = {} THEN ValueSourceNone
    ELSE CHOOSE s \in B : \A t \in B : SourceIndex(s) <= SourceIndex(t)

AllTexts == DOMAIN Tok \cup Lits \cup {"true", "false"}

PrecedenceHolds(Given) ==
    (Resolved /\ flagParseErr = ErrNil) =>
        \A i \in 1..Len(opts[cmd]) :
            opts[cmd][i].ValueSource =
                Highest(SuppliedTo(Members(opts[cmd], opts[cmd][i].Value), Given))

\* C1 as stated: once a command's env, flag, configuration and default
\* stages have run, each option's ValueSource is the highest-priority source
\* among those that supplied it (or an alias sharing its Value) a non-empty
\* value.
C1_AsStated == PrecedenceHolds(AllTexts \ {""})

\* C1 amended: the same, where a flag that pflag parsed counts as supplying
\* a value even when the value given is the empty string (env and default
\* count only when non-empty).
C1_Precedence == PrecedenceHolds(AllTexts)

\* C1 witness: flag, env, configuration file and default all supply alpha,
\* and the resolved source is flag.
C1_Witness ==
    /\ Resolved /\ flagParseErr = ErrNil /\ cmd = "root"
    /\ \E i \in 1..Len(opts["root"]) :
        /\ opts["root"][i].Name = "alpha"
        /\ opts["root"][i].ValueSource = ValueSourceFlag
        /\ SuppliedTo({i}, AllTexts \ {""}) =
               {ValueSourceFlag, ValueSourceEnv, ValueSourceYAML, ValueSourceDefault}

\* Source a has lower priority than source b.
LowerThan(a, b) == SourceIndex(a) > SourceIndex(b)

\* C2: no lower-priority stage sets a Value after a higher-priority source
\* has set it: there is no Value.Set by the configuration file after one by
\* flag or env, and none by a default after one by flag, env or file.
C2_NoOverwrite ==
    \A j, k \in 1..Len(setLog) :
        (j < k /\ setLog[j].val = setLog[k].val /\ SetOK(setLog[j].val, setLog[j].raw))
            => ~(/\ setLog[k].by \in {"yaml", "default"}
                 /\ LowerThan(setLog[k].by, setLog[j].by))

\* C2 witness: env set alpha, the file and a default could have, and the
\* command resolved with the env value in place.
C2_Witness ==
    /\ Resolved /\ cmd = "root"
    /\ \E i \in 1..Len(opts["root"]) :
        /\ opts["root"][i].Name = "alpha"
        /\ opts["root"][i].ValueSource = ValueSourceEnv
        /\ {ValueSourceEnv, ValueSourceYAML, ValueSourceDefault}
               \subseteq SuppliedTo({i}, AllTexts)
        /\ vals[opts["root"][i].Value] = Bound("ALPHA")

\* The argument vector as the claims read it: the positional tokens and the
\* flags with the values given to them, every flag of the root and of the
\* child known from the start.  ok is FALSE for a vector that asks for help,
\* names an unknown flag or leaves a flag without its value.
ValueFlags == {"alpha", "flag"}
NotPlain == [pos |-> <<>>, flags |-> <<>>, lead |-> {}, ok |-> FALSE]

RECURSIVE Scan(_)
Scan(a) ==
    IF a = <<>> THEN [pos |-> <<>>, flags |-> <<>>, lead |-> {}, ok |-> TRUE]
    ELSE LET t == Tok[Head(a)] IN
         IF t.k = "pos"
         THEN LET r == Scan(Tail(a)) IN [r EXCEPT !.pos = <<Head(a)>> \o r.pos, !.lead = {}]
         ELSE IF t.name \notin ValueFlags THEN NotPlain
         ELSE IF t.eq
         THEN LET r == Scan(Tail(a)) IN
              IF r.ok THEN [r EXCEPT !.flags = <<[name |-> t.name, v |-> t.v] >> \o r.flags,
                                     !.lead = r.lead \cup {t.name}]
              ELSE NotPlain
         ELSE IF Len(a) < 2 THEN NotPlain
         ELSE LET r == Scan(Tail(Tail(a))) IN
              IF r.ok THEN [r EXCEPT !.flags = <<[name |-> t.name, v |-> a[2] ] >> \o r.flags,
                                     !.lead = r.lead \cup {t.name}]
              ELSE NotPlain

\* The value the last occurrence of flag n in the scanned vector gives.
LastGiven(fl, n) ==
    LET K == {k \in 1..Len(fl) : fl[k].name = n}
    IN fl[CHOOSE k \in K : \A m \in K : m <= k].v

\* The option of command c bound to flag n.
OptionOfFlag(c, n) == CHOOSE i \in 1..Len(opts[c]) : opts[c][i].Flag = n
FlagsOfCmd(c) == {opts[c][i].Flag : i \in 1..Len(opts[c])} \ {""}

\* The run ended in an error of option resolution or of Required
\* enforcement, which the dispatch claims do not speak about.
ResolutionFailed ==
    /\ outcome = "error"
    /\ err[1].kind \in ResolutionErrors \cup {"missing required"}

\* Every value the vector gives to a flag is one the flag's Value accepts.
ValuesAccepted(fl) ==
    \A k \in 1..Len(fl) :
        \A c \in Cmds : fl[k].name \in FlagsOfCmd(c) =>
            SetOK(opts[c][OptionOfFlag(c, fl[k].name)].Value, fl[k].v)

DispatchedToSub(sc) ==
    /\ cmd = "sub"
    /\ outcome = "handler"
    /\ handlerRan = {"Middleware", "Handler"}
    /\ invArgs = Tail(sc.pos)
    /\ \A n \in FlagsOfCmd("sub") :
        (\E k \in 1..Len(sc.flags) : sc.flags[k].name = n) =>
            /\ opts["sub"][OptionOfFlag("sub", n)].ValueSource = ValueSourceFlag
            /\ vals[opts["sub"][OptionOfFlag("sub", n)].Value] = LastGiven(sc.flags, n)

\* The vector is plain, its first positional token is the child's name and
\* the run was neither a completion nor ended by a resolution error.
DispatchCase(sc) ==
    /\ pc = "done"
    /\ ~completion
    /\ sc.ok
    /\ ValuesAccepted(sc.flags)
    /\ sc.pos # <<>>
    /\ sc.pos[1] = "sub"
    /\ ~ResolutionFailed

\* The flags the vector gives in front of its first positional token.
RECURSIVE Leading(_)
Leading(a) ==
    IF a = <<>> \/ Tok[Head(a)].k = "pos" THEN {}
    ELSE IF Tok[Head(a)].eq \/ Len(a) < 2 THEN {Tok[Head(a)].name} \cup Leading(Tail(a))
    ELSE {Tok[Head(a)].name} \cup Leading(Tail(Tail(a)))

\* C4 as stated: a vector whose first positional token is the child's name
\* is dispatched to the child, the child's flags in the vector are set with
\* source flag, and the child's handler gets the positional tokens after the
\* name; a flag's value is never read as a name or a positional argument.
C4_AsStated == DispatchCase(Scan(allArgs)) => DispatchedToSub(Scan(allArgs))

\* C4 amended: the same for a vector in which every flag in front of the
\* child's name is a flag the root defines.
C4_Dispatch ==
    (DispatchCase(Scan(allArgs)) /\ Leading(allArgs) \subseteq FlagsOfCmd("root"))
        => DispatchedToSub(Scan(allArgs))

\* C4 witness: the child was reached, its flag was set from the vector and
\* its handler got a positional argument.
C4_Witness ==
    /\ DispatchCase(Scan(allArgs))
    /\ DispatchedToSub(Scan(allArgs))
    /\ invArgs # <<>>
    /\ opts["sub"][1].ValueSource = ValueSourceFlag

\* The Required options of the terminal command that are without a source.
Unset == {i \in 1..Len(opts[cmd]) :
             opts[cmd][i].Required /\ opts[cmd][i].ValueSource = ValueSourceNone}

\* The run came to the Required check of the terminal command: it is no
\* completion and no flag-parse error other than a help request ended it.
RequiredChecked ==
    /\ TerminalReached
    /\ ~completion
    /\ tree[cmd].RawArgs \/ flagParseErr \in {ErrNil, ErrHelp}

\* C5: when the Required check finds options without a source and no help
\* request is in flight, Run returns an error naming every one of them and
\* invokes neither handler nor middleware.
C5_MissingRequired ==
    (RequiredChecked /\ Unset # {} /\ flagParseErr # ErrHelp) =>
        /\ outcome = "error"
        /\ err[1].kind = "missing required"
        /\ {err[1].names[k] : k \in 1..Len(err[1].names)} = {opts[cmd][i].Name : i \in Unset}
        /\ Len(err[1].names) = Cardinality(Unset)
        /\ handlerRan = {}

\* C5 witness: two Required options of the root are unset and both are named.
C5_Witness ==
    /\ RequiredChecked /\ flagParseErr = ErrNil
    /\ Cardinality(Unset) = 2
    /\ outcome = "error"
    /\ Len(err[1].names) = 2

\* C6: with a help request in flight a Required option without a source
\* gives no missing-values error; the help handler (the command's own, else
\* the default) is invoked and neither Handler nor middleware is.
C6_HelpSuppressesRequired ==
    (RequiredChecked /\ Unset # {} /\ flagParseErr = ErrHelp /\ ~VersionRequested) =>
        /\ outcome = "help"
        /\ \A k \in 1..Len(err) : err[k].kind # "missing required"
        /\ handlerRan = IF tree[cmd].HelpHandler THEN {"HelpHandler"} ELSE {"DefaultHelpFn"}

\* C6 witness: the child's Required flag is unset, --help was given, and the
\* child's help handler ran.
C6_Witness ==
    /\ RequiredChecked /\ flagParseErr = ErrHelp
    /\ cmd = "sub" /\ Unset # {}
    /\ outcome = "help"
    /\ handlerRan = {"HelpHandler"}

(***************************************************************************)
(* Claims about the accumulated flag set and the flags of the vector.      *)
(***************************************************************************)
\* The child has merged its flags into the accumulated set and parsed.
ParsedAtSub == cmd = "sub" /\ pc \in {"yaml", "defaults", "dispatch", "handler", "done"}

\* The flag names the child defines anew.
Redefined == FlagsOfCmd("sub") \cap FlagsOfCmd("root")

Target(pos) == IF pos # <<>> /\ HasChildNamed("root", pos[1]) THEN "sub" ELSE "root"
Residue(pos) == IF Target(pos) = "sub" THEN Tail(pos) ELSE pos
DispatchPath(pos) == IF Target(pos) = "sub" THEN {"root", "sub"} ELSE {"root"}

\* The Value a flag of the vector is bound to: that of the deepest command
\* of the path that defines the flag.
BoundValue(pos, n) ==
    LET c == IF Target(pos) = "sub" /\ n \in FlagsOfCmd("sub") THEN "sub" ELSE "root"
    IN opts[c][OptionOfFlag(c, n)].Value

\* A finished run, no completion, on a vector whose flags all belong to
\* commands of the dispatch path and are given values they accept, that did
\* not end in an error of option resolution or Required enforcement.
FlagsOnPath(sc) ==
    /\ pc = "done"
    /\ ~completion
    /\ sc.ok
    /\ ValuesAccepted(sc.flags)
    /\ ~ResolutionFailed
    /\ \A k \in 1..Len(sc.flags) :
        \E c \in DispatchPath(sc.pos) : sc.flags[k].name \in FlagsOfCmd(c)

\* Run reached the command and passed the arguments that the vector without
\* its flag tokens leads to, and every flag given holds its value.
SameAsWithoutFlags(sc) ==
    /\ cmd = Target(sc.pos)
    /\ invArgs = Residue(sc.pos)
    /\ \A k \in 1..Len(sc.flags) :
        vals[BoundValue(sc.pos, sc.flags[k].name)] = LastGiven(sc.flags, sc.flags[k].name)

\* C12 as stated: a flag of any command of the dispatch path may stand
\* anywhere in the vector: Run reaches the same command with the same Args
\* as for the vector without the flag tokens, and the flag's Value is set.
C12_AsStated == FlagsOnPath(Scan(allArgs)) => SameAsWithoutFlags(Scan(allArgs))

\* C12 amended: the same for a vector in which no flag stands in front of
\* the name of the command that defines it (a flag of the root may stand
\* anywhere).
C12_FlagsAnywhere ==
    (FlagsOnPath(Scan(allArgs)) /\ Leading(allArgs) \subseteq FlagsOfCmd("root"))
        => SameAsWithoutFlags(Scan(allArgs))

\* C12 witness: a flag of the root and its value stand in front of the
\* child's name; the child was reached and the root's Value holds the value.
C12_Witness ==
    /\ FlagsOnPath(Scan(allArgs))
    /\ allArgs = <<"--alpha", "pos1", "sub">>
    /\ cmd = "sub"
    /\ invArgs = <<>>
    /\ vals["vs"] = "pos1"

(***************************************************************************)
(* C13: a flag-parse error is recorded, not returned, by the command that  *)
(* parsed; it is fatal only at the terminal command.                       *)
(***************************************************************************)
\* The error the root's own parse of the argument vector records.
RootParseErr == Parse(MergeFlags(<<>>, opts["root"], 1), ZeroValues, allArgs).err

\* A command that holds a recorded flag-parse error and finds its child
\* among the positional arguments hands the run to that child.
DispatchesDespiteError ==
    (pc = "dispatch" /\ flagParseErr # ErrNil /\ NextIsChild)
        => /\ pc' = "env"
           /\ cmd' = ChildNamed(cmd, parsedArgs[depth + 1])
           /\ outcome' = "none"
           /\ err' = <<>>

\* At a terminal command that is not raw-argument, outside completion mode,
\* a recorded error other than the help request ends Run with the
\* flag-parse error and nothing is invoked.
FatalAtTerminal ==
    (/\ pc = "done"
     /\ TerminalReached
     /\ ~completion
     /\ ~tree[cmd].RawArgs
     /\ flagParseErr \notin {ErrNil, ErrHelp})
        => /\ outcome = "error"
           /\ err = RunError("parsing flags", <<>>)
           /\ handlerRan = {}

\* C13: a flag-parse error recorded at a command does not abort Run when
\* that command dispatches to a child; at a terminal command that is not
\* raw-argument a recorded flag-parse error that is not a help request makes
\* Run return an error, and neither the handler nor the help handler is
\* invoked (completion mode, which returns before the error is looked at,
\* set aside).
C13_FlagParseErrorDeferred == [][DispatchesDespiteError]_vars /\ []FatalAtTerminal

\* The root records "flag needs an argument" behind the name of its child
\* and still dispatches; the child records the same error and Run fails.
C13_Witness ==
    /\ pc = "done"
    /\ allArgs = <<"sub", "--alpha">>
    /\ RootParseErr = ErrNeedsArg
    /\ cmd = "sub"
    /\ flagParseErr = ErrNeedsArg
    /\ outcome = "error"
    /\ err = RunError("parsing flags", <<>>)
    /\ handlerRan = {}

(***************************************************************************)
(* C14: a command with RawArgs receives the unparsed arguments.            *)
(***************************************************************************)
\* The index in the vector of the first token that is neither a flag of the
\* root nor the value of one; 0 when an unknown flag, a help request or a
\* flag without its value comes first.
RECURSIVE NameToken(_, _)
NameToken(a, i) ==
    IF i > Len(a) THEN 0
    ELSE IF Tok[a[i]].k = "pos" THEN i
    ELSE IF Tok[a[i]].name \notin FlagsOfCmd("root") THEN 0
    ELSE IF Tok[a[i]].eq THEN NameToken(a, i + 1)
    ELSE NameToken(a, i + 2)

\* The tokens that follow the name token of the terminal command.
AfterName ==
    IF cmd = "root" THEN allArgs
    ELSE SubSeq(allArgs, NameToken(allArgs, 1) + 1, Len(allArgs))

RawTerminal ==
    /\ pc = "done"
    /\ TerminalReached
    /\ tree[cmd].RawArgs

HandlerGotRawArgs ==
    /\ outcome = "handler"
    /\ err = <<>>
    /\ handlerRan = {"Middleware", "Handler"}
    /\ invArgs = AfterName

\* C14: Run that ends at a raw-argument command invokes its handler,
\* whatever flag-like tokens the vector holds, with Args equal to the tokens
\* of the vector that follow the command's name token (the whole vector for
\* the root); no error and no help request comes of it.
C14_RawArgsVerbatim == RawTerminal => HandlerGotRawArgs

\* What the code does keep: a raw-argument command reached by its name, with
\* no help request in front of or behind the name, gets its tokens verbatim.
RawByNameWithoutHelp ==
    (/\ RawTerminal
     /\ \A k \in 1..Len(allArgs) : allArgs[k] # "--help"
     /\ cmd # "root" => allArgs[NameToken(allArgs, 1)] = Name(cmd))
        => HandlerGotRawArgs

\* The two ways a raw-argument child is denied its tokens: the help request
\* behind its name is taken by the root's parse and the help handler runs
\* in place of the handler; reached by its alias, findArg does not find its
\* name and run panics.
RawHelpRequestTaken ==
    /\ RawTerminal
    /\ allArgs = <<"sub", "--help">>
    /\ cmd = "sub"
    /\ outcome = "help"
    /\ handlerRan = {"HelpHandler"}

RawAliasPanics ==
    /\ RawTerminal
    /\ allArgs = <<"s", "x">>
    /\ cmd = "sub"
    /\ outcome = "panic"
    /\ handlerRan = {}

(***************************************************************************)
(* C15: a positional token that names no child of a root that takes no     *)
(* positional arguments.                                                   *)
(***************************************************************************)
\* The root takes no positional arguments: it has no Handler, or its
\* Handler stands behind RequireNArgs(0).
AcceptsNoArgs == ~tree["root"].Handler \/ tree["root"].Middleware = <<0, 0>>

\* Run ended at the root, which has children and is not raw-argument, on a
\* vector whose first positional token names no child; no flag-parse error
\* other than a help request was recorded.
UnknownCase ==
    /\ pc = "done"
    /\ TerminalReached
    /\ cmd = "root"
    /\ tree["root"].Children # {}
    /\ ~tree["root"].RawArgs
    /\ AcceptsNoArgs
    /\ NameToken(allArgs, 1) # 0
    /\ ~HasChildNamed("root", allArgs[NameToken(allArgs, 1)])
    /\ flagParseErr \in {ErrNil, ErrHelp}

\* Run returned an UnknownSubcommandError whose Args are the positional
\* tokens the parse collected.
ReturnsUnknownSubcommand ==
    /\ err = RunError("unknown subcommand", parsedArgs)
    /\ invArgs = parsedArgs
    /\ parsedArgs[1] = allArgs[NameToken(allArgs, 1)]
    /\ Scan(allArgs).ok => parsedArgs = Scan(allArgs).pos
    /\ "Handler" \notin handlerRan

\* The usage of the root is written by DefaultHelpFn: the root has no
\* HelpHandler of its own, and has no Handler or was asked for help.
DefaultHelpTaken ==
    /\ ~tree["root"].HelpHandler
    /\ ~tree["root"].Handler \/ HelpRequested

\* C15 as stated: Run on a vector whose first positional token names no
\* child, against a root that has children, is not raw-argument and accepts
\* no positional arguments, returns an UnknownSubcommandError whose Args are
\* the residual positional tokens.
C15_AsStated == UnknownCase => ReturnsUnknownSubcommand

\* C15 amended: that error is returned when DefaultHelpFn writes the usage
\* of the root; a root whose Handler stands behind RequireNArgs(0), not
\* asked for help, returns the error "unrecognized subcommand" of the
\* middleware, wrapped as a RunCommandError, and its Handler does not run.
C15_UnknownSubcommand ==
    /\ (UnknownCase /\ DefaultHelpTaken) => ReturnsUnknownSubcommand
    /\ (UnknownCase /\ tree["root"].Handler /\ ~HelpRequested)
           => /\ err = RunError("running command", <<"unrecognized subcommand">>)
              /\ handlerRan = {"Middleware"}

\* C15 witness: a root without Handler and HelpHandler, run on two tokens
\* that name no child.
C15_Witness ==
    /\ UnknownCase
    /\ DefaultHelpTaken
    /\ allArgs = <<"x", "pos1">>
    /\ err = RunError("unknown subcommand", <<"x", "pos1">>)
    /\ handlerRan = {"DefaultHelpFn"}

(***************************************************************************)
(* C16: two children of a visited command share a name or an alias.        *)
(***************************************************************************)
\* The commands run went through: the current one and its ancestors.
RECURSIVE Path(_)
Path(c) == IF c = "" THEN {} ELSE {c} \cup Path(tree[c].Parent)

\* The names and aliases two different children of c have in common.
SharedNames(c) ==
    {n \in UNION {ChildNames(ch) : ch \in tree[c].Children} :
        \E a, b \in tree[c].Children : a # b /\ n \in ChildNames(a) /\ n \in ChildNames(b)}

\* C16: when a command visited during dispatch has two children that share
\* a name or alias (name with name, name with alias, alias with alias), Run
\* returns an error and no handler, help handler or completion handler of
\* any command is invoked.
C16_DuplicateChildren ==
    (pc = "done" /\ \E c \in Path(cmd) : SharedNames(c) # {})
        => /\ outcome = "error"
           /\ err = RunError("duplicate command name", <<>>)
           /\ handlerRan = {}
           /\ stdout = <<>>
           /\ ctx.state = "none"

\* C16 witness: both children of sub have the alias s; the vector names sub
\* and then s, and Run fails at sub.
C16_Witness ==
    /\ pc = "done"
    /\ allArgs = <<"sub", "s">>
    /\ cmd = "sub"
    /\ tree["sub"].Children = {"dup", "twin"}
    /\ SharedNames("sub") = {"s"}
    /\ Name("dup") # Name("twin")
    /\ outcome = "error"
    /\ err = RunError("duplicate command name", <<>>)

(***************************************************************************)
(* C17: completion mode.                                                   *)
(***************************************************************************)
\* The candidates for the last word of the vector when no option of the
\* command has candidates of its own: a flag of the command is echoed, so
\* is the command's name, and any other word gets the names of the
\* command's children.
Candidates ==
    LET cur == IF allArgs = <<>> THEN "" ELSE allArgs[Len(allArgs)]
        isFlag == /\ cur # ""
                  /\ Tok[cur].k = "long"
                  /\ ~Tok[cur].eq
                  /\ Tok[cur].name \in FlagsOfCmd(cmd)
    IN IF isFlag \/ cur = Name(cmd) THEN <<cur>>
       ELSE IF tree[cmd].Children = {} THEN <<>>
       ELSE <<"sub">>

\* C17: in completion mode Run at the terminal command writes each
\* completion candidate on its own line to Stdout and returns nil without
\* invoking the handler or the help handler, whatever flag-parse error was
\* recorded and whichever Required options are unset.
C17_CompletionMode ==
    (pc = "done" /\ completion /\ TerminalReached)
        => /\ outcome = "completion"
           /\ err = <<>>
           /\ handlerRan = {}
           /\ ctx.state = "none"
           /\ stdout = Candidates

\* C17 witness: the root records an unknown flag and its Required options
\* are unset; the name of its child is written and Run returns nil.
C17_Witness ==
    /\ pc = "done"
    /\ completion
    /\ allArgs = <<"--flag">>
    /\ cmd = "root"
    /\ flagParseErr = ErrUnknownFlag
    /\ Missing(opts[cmd], 1) # <<>>
    /\ outcome = "completion"
    /\ err = <<>>
    /\ handlerRan = {}
    /\ stdout = <<"sub">>

(***************************************************************************)
(* C18: the version flag.                                                  *)
(***************************************************************************)
\* Whether the parse of the terminal command meets the flag n in vector a
\* from token i on: a token that is the value of a flag before it is no
\* flag, and an unknown flag or a help request in front of n ends the parse.
RECURSIVE SeesFlag(_, _, _)
SeesFlag(a, i, n) ==
    IF i > Len(a) THEN FALSE
    ELSE IF Tok[a[i]].k = "pos" THEN SeesFlag(a, i + 1, n)
    ELSE IF Tok[a[i]].name = n THEN TRUE
    ELSE IF Tok[a[i]].name \notin UNION {FlagsOfCmd(c) : c \in Path(cmd)} THEN FALSE
    ELSE IF Tok[a[i]].eq THEN SeesFlag(a, i + 1, n)
    ELSE SeesFlag(a, i + 2, n)

\* Run reached the version step of a terminal command that has a Version
\* and declares the version flag, on a vector that gives the flag: no
\* completion mode, no flag-parse error other than a help request, and no
\* Required option left unset unless help was asked for.
VersionCase ==
    /\ pc = "done"
    /\ TerminalReached
    /\ ~completion
    /\ tree[cmd].Version # ""
    /\ "version" \in FlagsOfCmd(cmd)
    /\ SeesFlag(allArgs, 1, "version")
    /\ flagParseErr \in {ErrNil, ErrHelp}
    /\ Missing(opts[cmd], 1) = <<>> \/ HelpRequested

C19_ChainOrder ==
    pc = "chain" =>
        /\ Len(called) <= Len(ms) + 1
        /\ \A k \in 1..Len(called) :
            /\ k <= Len(ms) => called[k] = ms[k]
            /\ k > Len(ms) => /\ called[k] = TheHandler[1]
                              /\ \A j \in 1..Len(ms) : ms[j].does = "next"
            /\ k > 1 => called[k - 1].does = "next"

\* C19 witness: three middlewares that all call their next, and the handler
\* has run after them.
C19_Witness ==
    /\ pc = "chain"
    /\ Len(ms) = 3
    /\ Len(called) = 4
    /\ <<called[1].id, called[2].id, called[3].id, called[4].id>> = <<1, 2, 3, 0>>

(***************************************************************************)
(* C20: the context of the handler.                                        *)
(***************************************************************************)
\* The Handler of the terminal command was invoked and has returned, failed
\* or panicked, and Run with it.
HandlerDone ==
    /\ pc = "done"
    /\ "Handler" \in handlerRan

\* C20: the context the handler sees is a cancellable context derived from
\* the invocation's context (from the background context when there is
\* none); Run does not cancel it before the handler returns, and it is
\* cancelled once Run has returned, whether the handler succeeded, returned
\* an error or panicked.
C20_HandlerContext ==
    /\ pc = "handler" =>
          /\ ctx.state = "live"
          /\ ctx.parent = IF ctx.inv = "nil" THEN "background" ELSE "inv.ctx"
    /\ HandlerDone =>
          /\ ctx.state = "cancelled"
          /\ outcome \in {"handler", "panic"}
          /\ outcome = "panic" <=> tree[cmd].HandlerResult = "panic"
          /\ err # <<>> <=> tree[cmd].HandlerResult = "error"

\* C20 witness: the handler of the child panicked and the context derived
\* from the caller's context is cancelled.
C20_Witness ==
    /\ HandlerDone
    /\ cmd = "sub"
    /\ tree[cmd].HandlerResult = "panic"
    /\ outcome = "panic"
    /\ ctx = [inv |-> "set", parent |-> "inv.ctx", state |-> "cancelled"]

(***************************************************************************)
(* C21: a panic of the handler.                                            *)
(***************************************************************************)
\* The Handler of the terminal command was invoked and panicked.
HandlerPanicked ==
    /\ HandlerDone
    /\ tree[cmd].HandlerResult = "panic"

\* C21 as stated: a panic raised while a handler executes is recovered by
\* Run: outside test mode it is converted to an error that Run returns, and
\* in test mode it is raised again as a panic that carries the command's
\* full name.
C21_AsStated ==
    HandlerPanicked =>
        /\ err = RunError("panic recovered", <<FullName(cmd)>>)
        /\ outcome = IF testMode THEN "panic" ELSE "error"

\* C21 amended: Run recovers the panic only in test mode, and then panics
\* again with an error that carries the command's full name; outside test
\* mode the panic is not recovered and leaves Run as it was raised, and Run
\* returns nothing.
C21_PanicInHandler ==
    HandlerPanicked =>
        /\ outcome = "panic"
        /\ err = IF testMode THEN RunError("panic recovered", <<FullName(cmd)>>) ELSE <<>>

\* C21 witness: the handler of the child panics in test mode, and the panic
\* Run raises names "root sub".
C21_Witness ==
    /\ HandlerPanicked
    /\ testMode
    /\ cmd = "sub"
    /\ outcome = "panic"
    /\ err = RunError("panic recovered", <<"root sub">>)

(***************************************************************************)
(* C22: RequireRangeArgs and RequireNArgs.                                 *)
(***************************************************************************)
\* Run ended at the root, whose Handler stands behind
\* RequireRangeArgs(start, end) with end = -1 or start <= end.
RangeCase ==
    /\ pc = "done"
    /\ TerminalReached
    /\ cmd = "root"
    /\ tree[cmd].Middleware # <<>>
    /\ tree[cmd].Middleware[2] = -1 \/ tree[cmd].Middleware[1] <= tree[cmd].Middleware[2]

\* The number of arguments is one the middleware is documented to accept.
InRange ==
    LET start == tree[cmd].Middleware[1]
        end == tree[cmd].Middleware[2]
        got == Len(invArgs)
    IN IF end = -1 THEN got >= start ELSE start <= got /\ got <= end

RangeEnforced ==
    /\ invArgs = allArgs
    /\ "Handler" \in handlerRan <=> InRange
    /\ ~InRange => outcome = "handler" /\ err # <<>> /\ err[1].kind = "running command"
    /\ InRange => outcome = "handler" /\ err = <<>>

\* C22: for every start >= 0 the middleware RequireRangeArgs(start, -1)
\* invokes the next handler iff len(Args) >= start, and for
\* 0 <= start <= end RequireRangeArgs(start, end) invokes it iff
\* start <= len(Args) <= end; in every rejected case it returns an error
\* and the next handler is not invoked.
C22_ArgumentCount == RangeCase => RangeEnforced

\* What the code does keep: the same for every pair but start = 0 with
\* end = -1.
RangeButZeroOpenEnded ==
    (RangeCase /\ tree[cmd].Middleware # <<0, -1>>) => RangeEnforced

\* RequireRangeArgs(0, -1) panics whatever the arguments are.
ZeroOpenEndedPanics ==
    /\ RangeCase
    /\ tree[cmd].Middleware = <<0, -1>>
    /\ allArgs = <<"x">>
    /\ outcome = "panic"
    /\ "Handler" \notin handlerRan

(***************************************************************************)
(* C23: the YAML round trip.                                               *)
(***************************************************************************)
\* The options of the set that have a config path.
WithPath(os) == {i \in 1..Len(os) : YAMLPath(os[i]) # ""}

\* os2 holds the Values of tc.os and has ValueSource yaml at every option
\* that has a config path.
RoundTrip ==
    /\ err = <<>>
    /\ \A i \in WithPath(opts["root"]) :
        /\ String(opts["root"][i].Value, vals[opts["root"][i].Value])
               = String(prevOpts["root"][i].Value, prevVals[prevOpts["root"][i].Value])
        /\ opts["root"][i].ValueSource = ValueSourceYAML

DistinctPaths(os) ==
    \A i, j \in WithPath(os) : YAMLPath(os[i]) = YAMLPath(os[j]) => i = j

InlineWord ==
    /\ pc = "done"
    /\ completion
    /\ outcome = "completion"
    /\ allArgs # <<>>
    /\ Tok[allArgs[Len(allArgs)]].k = "long"
    /\ Tok[allArgs[Len(allArgs)]].eq

\* The options of the terminal command that the current word names.
InlineOptions ==
    {i \in 1..Len(opts[cmd]) : opts[cmd][i].Flag = Tok[allArgs[Len(allArgs)]].name}

\* The candidates of an option as it was declared: what its
\* CompletionHandler returns, or the Choices its Enum was made with.
DeclaredCandidates(o) ==
    IF o.CompletionHandler # <<>> THEN o.CompletionHandler
    ELSE IF ValueKind[o.Value] = "enum" THEN <<"binary", "text">>
    ELSE <<>>

C29_ChoicesUnchanged == InlineWord => choices = EnumOf

\* After the completion of --type= the Choices of the Enum are the
\* rewritten candidates.
ChoicesRewritten ==
    /\ InlineWord
    /\ choices["ve"] = <<"--type=binary", "--type=text">>

\* A completion that is no inline value leaves the Choices alone.
C29_OtherCompletions ==
    (pc = "done" /\ completion /\ ~InlineWord) => choices = EnumOf

(***************************************************************************)
(* C25: the ValueSource of the options whose flags were given.             *)
(***************************************************************************)
\* A run that ended without an error, outside completion mode, on a vector
\* in which every flag carries its value inline, so that every flag token
\* is an occurrence of its flag.
FlagsGivenInline ==
    /\ pc = "done"
    /\ ~completion
    /\ err = <<>>
    /\ outcome \in {"handler", "help"}
    /\ \A i \in 1..Len(allArgs) : Tok[allArgs[i]].k = "long" => Tok[allArgs[i]].eq

GivenAsFlag(n) ==
    \E i \in 1..Len(allArgs) : Tok[allArgs[i]].k = "long" /\ Tok[allArgs[i]].name = n

\* The commands run went through.
OnDispatchPath == IF cmd = "root" THEN {"root"} ELSE {"root", cmd}

MarkedFlag(c) ==
    \A i \in 1..Len(opts[c]) :
        (opts[c][i].Flag # "" /\ GivenAsFlag(opts[c][i].Flag))
            => opts[c][i].ValueSource = ValueSourceFlag

\* C25: after Run every option of every command on the dispatch path whose
\* flag occurs in the argument vector has ValueSource flag, an ancestor's
\* option whose flag follows a token the ancestor's parse cannot accept
\* included.
C25_FlagSourceOnPath == FlagsGivenInline => \A c \in OnDispatchPath : MarkedFlag(c)

\* What holds: the options of the terminal command are marked.
C25_TerminalMarked == FlagsGivenInline => MarkedFlag(cmd)

\* [sub, --type=text, --alpha=1]: the root's parse stops at --type, the
\* child's parse sets the root's alpha to 1, and alpha is not marked.
AncestorFlagUnmarked ==
    /\ FlagsGivenInline
    /\ cmd = "sub"
    /\ allArgs = <<"sub", "--type=text", "--alpha=1">>
    /\ vals["vt"] = "1"
    /\ \E i \in 1..Len(opts["root"]) :
        /\ opts["root"][i].Flag = "alpha"
        /\ opts["root"][i].ValueSource # ValueSourceFlag

(***************************************************************************)
(* C26: when Run returns an UnknownSubcommandError.                        *)
(***************************************************************************)
\* Run returned an UnknownSubcommandError.
IsUnknownSubcommandError == Len(err) = 1 /\ err[1].kind = "unknown subcommand"

\* The terminal command takes positional arguments: its Use declares them,
\* or it has a Handler that no RequireNArgs(0) stands in front of.
AcceptsArgs(c) ==
    \/ UsageWantsArg(c)
    \/ tree[c].Handler /\ tree[c].Middleware # <<0, 0>>

\* The residual positional arguments of the terminal command.
Residual == SubSeq(parsedArgs, depth + 1, Len(parsedArgs))

\* C26: Run returns an UnknownSubcommandError only when the terminal
\* command has residual positional arguments, none of its children matches,
\* and the command does not accept positional arguments; a help request on
\* a command whose Use declares positional arguments, given such
\* arguments, does not return it.
C26_OnlyForUnknownSubcommand ==
    pc = "done" =>
        /\ IsUnknownSubcommandError =>
            /\ Residual # <<>>
            /\ ~HasChildNamed(cmd, Residual[1])
            /\ ~AcceptsArgs(cmd)
        /\ (HelpRequested /\ UsageWantsArg(cmd) /\ Residual # <<>>)
            => ~IsUnknownSubcommandError

\* What holds: the error comes from DefaultHelpFn alone, whenever it is
\* handed arguments, whatever the Use of the command says.
C26_FromDefaultHelpFn ==
    pc = "done" =>
        (IsUnknownSubcommandError <=>
            /\ handlerRan = {"DefaultHelpFn"}
            /\ Residual # <<>>
            /\ err[1].names = Residual)

\* root <x> with a Handler, asked for help after an argument: [x, --help].
HelpWithDeclaredArg ==
    /\ pc = "done"
    /\ cmd = "root"
    /\ tree["root"].Handler
    /\ tree["root"].Middleware = <<>>
    /\ UsageWantsArg("root")
    /\ allArgs = <<"x", "--help">>
    /\ err = RunError("unknown subcommand", <<"x">>)

(***************************************************************************)
(* C27: Run terminates, and how it ends.                                   *)
(***************************************************************************)
\* The steps a run can still take: five for each token not yet descended
\* on plus the steps left at this node.
PcRank ==
    [init |-> 7, env |-> 6, flags |-> 5, yaml |-> 4, defaults |-> 3, dispatch |-> 2,
     handler |-> 1, done |-> 0]
StepsLeft == 5 * (Len(allArgs) - depth) + PcRank[pc]

\* Run is sequential code: it does not stop before it has returned.  Every
\* action of Next is guarded by the value of pc alone (RunDescend and
\* RunTerminal share "dispatch" between them by NextIsChild), so a step of
\* Next can be taken exactly when pc is not "done", and every step of Next
\* changes pc: the condition is weak fairness of Next.  The runs are those
\* of the raw-argument, version and completion families, which between
\* them end in every way run can end.
SpecTermination ==
    /\ InitRaw \/ InitVersion \/ InitEnum
    /\ [][Next]_vars
    /\ WF_pc(pc # "done" /\ pc' \in DOMAIN PcRank)

\* The ways the claim lets an invocation end: the handler was run, the help
\* handler was run, completions or the version were written, or an error
\* was returned.
Endings == {"handler", "help", "completion", "version", "error"}

\* C27: the invocation ends in exactly one of handler run, help handler
\* run, completion output, version output, or an error.
C27_OneOfFiveEndings == pc = "done" => outcome \in Endings

\* The dispatch terminates.
C27_Terminates == <>(pc = "done")

\* Every descent consumes one positional token and raises the depth by one:
\* the depth is at most the number of positional tokens given, and a
\* descent is a step from depth d to d + 1 onto a child named by a token.
C27_DescentsBounded ==
    depth <= Cardinality({i \in 1..Len(allArgs) : Tok[allArgs[i]].k = "pos"})

C27_DescentsStepByOne == [][depth' # depth => depth' = depth + 1 /\ cmd' # cmd]_vars

\* Every step changes pc and lowers the number of steps left, which never
\* falls below zero.
C27_StepsLeftDecrease == [][pc' # pc /\ StepsLeft' < StepsLeft /\ StepsLeft' >= 0]_vars

\* With the panics set aside, nothing else ends a run.
C27_EndingsButPanic == pc = "done" => outcome \in Endings \cup {"panic"}

\* The run of a raw-argument child through its alias ends in none of the
\* five ways: findArg panics inside run.
EndsInPanic ==
    /\ pc = "done"
    /\ outcome = "panic"
    /\ handlerRan = {}
    /\ tree["sub"].RawArgs
    /\ cmd = "sub"
    /\ allArgs[1] = "s"

(***************************************************************************)
(* C28: a child invoked through an alias.                                  *)
(***************************************************************************)
\* Run ended on a vector that names the child sub by n, its Name or one of
\* its Aliases, holds no help request and, unless the child takes raw
\* arguments, only flags the parse accepts.
InvokedAs(n) ==
    /\ pc = "done"
    /\ ~tree["root"].RawArgs
    /\ NameToken(allArgs, 1) # 0
    /\ allArgs[NameToken(allArgs, 1)] = n
    /\ n \in tree["sub"].Aliases \cup {tree["sub"].Use[1]}
    /\ \A k \in 1..Len(allArgs) : allArgs[k] # "--help"
    /\ ~tree["sub"].RawArgs => (flagParseErr = ErrNil /\ Scan(allArgs).ok)

\* The result of the invocation through the Name: sub is the terminal
\* command, its Handler ran with the tokens behind the name (the positional
\* ones when the child is not raw), and Run returned nil.
SubRanOnRest ==
    /\ cmd = "sub"
    /\ outcome = "handler"
    /\ err = <<>>
    /\ handlerRan = {"Middleware", "Handler"}
    /\ invArgs = IF tree["sub"].RawArgs
                 THEN SubSeq(allArgs, NameToken(allArgs, 1) + 1, Len(allArgs))
                 ELSE Tail(Scan(allArgs).pos)

\* The invocation through the Name gives that result.
C28_ThroughName == InvokedAs("sub") => SubRanOnRest

\* C28: invoking a child through an alias gives the result of invoking it
\* through its Name, the same terminal command, handler Args and error, for
\* raw-argument children as well as for the others.
C28_AliasAsName == InvokedAs("s") => SubRanOnRest

\* It does for a child that is not raw.
C28_AliasOfParsedChild == (InvokedAs("s") /\ ~tree["sub"].RawArgs) => SubRanOnRest

\* A raw-argument child invoked through its alias: run panics where the
\* invocation through the Name runs the Handler on <<"x">>.
RawAliasDiffers ==
    /\ InvokedAs("s")
    /\ tree["sub"].RawArgs
    /\ allArgs = <<"s", "x">>
    /\ cmd = "sub"
    /\ outcome = "panic"
    /\ "Handler" \notin handlerRan

RawNameRuns ==
    /\ InvokedAs("sub")
    /\ tree["sub"].RawArgs
    /\ "s" \in tree["sub"].Aliases
    /\ allArgs = <<"sub", "x">>
    /\ SubRanOnRest
    /\ invArgs = <<"x">>

(***************************************************************************)
(* C30: Required options of an ancestor.                                   *)
(***************************************************************************)
\* The Required options of the root that are without a source.
UnsetAtRoot ==
    {i \in 1..Len(opts["root"]) :
        opts["root"][i].Required /\ opts["root"][i].ValueSource = ValueSourceNone}

\* Run ended at the child, past its Required check, with no help request
\* and none of the child's own Required options unset.
ChildPastRequired ==
    /\ RequiredChecked
    /\ cmd = "sub"
    /\ flagParseErr = ErrNil
    /\ Unset = {}
    /\ ~VersionRequested

\* C30: Required-option enforcement looks only at the terminal command's
\* own OptionSet: a Required option of an ancestor that is still at
\* ValueSource none when a descendant is the terminal command neither
\* produces an error nor stops the descendant's handler from being invoked.
C30_AncestorRequiredIgnored ==
    (ChildPastRequired /\ UnsetAtRoot # {}) =>
        /\ \A k \in 1..Len(err) : err[k].kind # "missing required"
        /\ "Handler" \in handlerRan
        /\ outcome = "handler"
        /\ err = <<>>

\* C30 witness: both Required options of the root are unset, and the
\* Handler of the child ran.
C30_Witness ==
    /\ ChildPastRequired
    /\ Cardinality(UnsetAtRoot) = 2
    /\ allArgs = <<"sub">>
    /\ handlerRan = {"Middleware", "Handler"}
    /\ outcome = "handler"
    /\ err = <<>>
====
